---- MODULE Spec2Model ----
(***************************************************************************)
(* Model of the natural-language-to-qualification compiler of the ITSM     *)
(* service-ops agent: the multi-strategy facade                            *)
(* (EnhancedMultiEndpointAgent), the reference-data caches and fetches     *)
(* (MultiEndpointAgent, APIExecutor), the authenticated transport with its *)
(* retry on 401, and the qualification builders.                           *)
(***************************************************************************)
EXTENDS Integers, Sequences, FiniteSets, TLC

(***************************************************************************)
(* Bounds of the model.                                                    *)
(***************************************************************************)
MaxCalls == 2

(***************************************************************************)
(* PART 1 - the compiler facade and its strategies.                        *)
(*                                                                         *)
(* A payload is the JSON object a strategy hands back.  qd abstracts the   *)
(* value of payload['qualDetails']:                                        *)
(*   "absent"  - the key is missing                                        *)
(*   "empty"   - present but falsy ({})                                    *)
(*   "noquals" - a non-empty object without the key 'quals'                *)
(*   "ok"      - an object with a 'quals' list (held in quals)             *)
(* A leaf of quals is a record [key, operator, origin]; origin is a ghost  *)
(* field naming the strategy that built the leaf.                          *)
(***************************************************************************)
VARIABLES
    llama_only_mode,   \* EnhancedMultiEndpointAgent.llama_only_mode
    llm_type,          \* EnhancedMultiEndpointAgent.llm_type after detection
    f_in,              \* inputs of the last _generate_intelligent_filter call
    f_out,             \* its outcome: returned payload or raised exception
    f_invoked,         \* strategies invoked by that call, in order
    f_calls            \* number of calls made so far

facadeVars == <<llama_only_mode, llm_type, f_in, f_out, f_invoked, f_calls>>

Payload(qd, quals) == [qd |-> qd, quals |-> quals]

\* {"qualDetails": {"quals": [], "type": "FlatQualificationRest"}}
EmptyQualification == Payload("ok", <<>>)

NoPayload == Payload("absent", <<>>)

LlmLeaf == [key |-> "request.priorityId", operator |-> "in", origin |-> "llm"]
BadOperatorLeaf == [key |-> "request.priorityId", operator |-> "GreaterThan", origin |-> "llm"]
LocalLeaf == [key |-> "request.statusId", operator |-> "in", origin |-> "local"]

\* What the model backend can answer: transport outcome, shape of the text,
\* and the JSON object the text holds when it parses.
LlmHttp == {"network_error", "non200", "ok"}
LlmText == {"no_json", "invalid_json", "json"}
LlmPayloads ==
    { Payload("absent", <<>>), Payload("empty", <<>>), Payload("noquals", <<>>),
      Payload("ok", <<>>), Payload("ok", <<LlmLeaf>>), Payload("ok", <<BadOperatorLeaf>>) }

LlmResponses == [http : LlmHttp, text : LlmText, payload : LlmPayloads]

\* What the rule-based pipeline does on the prompt: the leaves its detectors
\* produce, or an exception inside one of the detectors.
LocalRuns == [error : BOOLEAN, quals : {<<>>, <<LocalLeaf>>}]

Returned(p, src) == [kind |-> "return", payload |-> p, source |-> src]
Raised(src) == [kind |-> "raise", payload |-> NoPayload, source |-> src]

\* EnhancedMultiEndpointAgent.llm_agent is set for "llama" and "openai" only.
llm_agent == llm_type \in {"llama", "openai"}

\* Llama32Agent._create_intelligent_llm_prompt: the JSON text sent on, or an
\* exception.  Unparsable text between braces is returned like parsable text.
_create_intelligent_llm_prompt(resp) ==
    IF resp.http # "ok" THEN [raised |-> TRUE, text |-> "no_json"]
    ELSE IF resp.text = "no_json" THEN [raised |-> TRUE, text |-> "no_json"]
    ELSE [raised |-> FALSE, text |-> resp.text]

\* Llama32Agent._parse_llm_response
Llama32Agent_parse_llm_response(text, payload) ==
    IF text = "json"
    THEN IF payload.qd = "ok" THEN payload ELSE EmptyQualification
    ELSE EmptyQualification

\* Llama32Agent.generate_filter_payload
Llama32Agent_generate_filter_payload(resp) ==
    LET js == _create_intelligent_llm_prompt(resp) IN
    IF js.raised THEN Raised("llm")
    ELSE Returned(Llama32Agent_parse_llm_response(js.text, resp.payload), "llm")

\* DynamicLLMAgent._validate_qualification: the operator must be of the
\* agent's own list.
DynamicValidOperators ==
    {"in", "not_in", "contains", "equal_case_insensitive", "start_with",
     "before", "after", "between", "within_last", "is_blank", "is_not_blank"}

_validate_qualification(qual) == qual.operator \in DynamicValidOperators

\* DynamicLLMAgent._validate_payload: TRUE when no ValueError is raised.
_validate_payload(payload) ==
    /\ payload.qd # "absent"
    /\ payload.qd = "ok"
    /\ \A i \in 1..Len(payload.quals) : _validate_qualification(payload.quals[i])

\* DynamicLLMAgent._parse_llm_response: the payload, or an exception.
DynamicLLMAgent_parse_llm_response(text, payload) ==
    IF text = "json" /\ _validate_payload(payload)
    THEN [raised |-> FALSE, payload |-> payload]
    ELSE [raised |-> TRUE, payload |-> NoPayload]

\* DynamicLLMAgent.generate_filter_payload: every exception of the call or of
\* the parse is caught and answered by the basic structure.
DynamicLLMAgent_generate_filter_payload(resp) ==
    IF resp.http # "ok" THEN Returned(EmptyQualification, "llm")
    ELSE LET p == DynamicLLMAgent_parse_llm_response(resp.text, resp.payload) IN
         IF p.raised THEN Returned(EmptyQualification, "llm")
         ELSE Returned(p.payload, "llm")

\* LocalIntelligenceAgent.generate_filter_payload
LocalIntelligenceAgent_generate_filter_payload(run) ==
    IF run.error THEN Returned(EmptyQualification, "local")
    ELSE Returned(Payload("ok", run.quals), "local")

\* The inner try block of _generate_intelligent_filter (lines 230-248): the
\* LLM attempt.  "accept" returns the LLM payload, "fall" leaves the block
\* without a result, "raise" is the exception re-raised by the handler.
LlmAttempt(resp) ==
    LET r == IF llm_type = "llama"
             THEN Llama32Agent_generate_filter_payload(resp)
             ELSE DynamicLLMAgent_generate_filter_payload(resp)
    IN  IF r.kind = "raise" THEN [step |-> "raise", payload |-> NoPayload]
        ELSE IF r.payload.qd = "ok" THEN [step |-> "accept", payload |-> r.payload]
        ELSE [step |-> "fall", payload |-> NoPayload]

\* A handler that propagates in every mode.
OuterHandler_reraise == Raised("llm")

\* The handler of the outer try block (lines 260-266).
OuterHandler ==
    IF llama_only_mode THEN Raised("llm")
    ELSE Returned(EmptyQualification, "static")

\* EnhancedMultiEndpointAgent._generate_intelligent_filter: outcome and the
\* strategies it invoked.
_generate_intelligent_filter(resp, run) ==
    LET a == IF llm_agent THEN LlmAttempt(resp) ELSE [step |-> "fall", payload |-> NoPayload]
        tried == IF llm_agent THEN <<"llm">> ELSE <<>>
    IN  IF a.step = "accept"
        THEN [out |-> Returned(a.payload, "llm"), invoked |-> tried]
        ELSE IF a.step = "raise"
        THEN [out |-> OuterHandler,
              invoked |-> IF llama_only_mode THEN tried ELSE Append(tried, "static")]
        ELSE IF llama_only_mode
        THEN [out |-> OuterHandler, invoked |-> tried]
        ELSE [out |-> LocalIntelligenceAgent_generate_filter_payload(run),
              invoked |-> Append(tried, "local")]

\* EnhancedMultiEndpointAgent.__init__: the mode and the detected LLM type.
\* llm_type = "llama_only" is converted to "llama" before detection.
FacadeConfigs ==
    { <<TRUE, "llama">>, <<FALSE, "llama">>, <<FALSE, "openai">>, <<FALSE, "none">> }

FacadeInit ==
    /\ \E c \in FacadeConfigs : llama_only_mode = c[1] /\ llm_type = c[2]
    /\ f_in = [resp |-> [http |-> "ok", text |-> "json", payload |-> EmptyQualification],
               run |-> [error |-> FALSE, quals |-> <<>>]]
    /\ f_out = Returned(NoPayload, "none")
    /\ f_invoked = <<>>
    /\ f_calls = 0

GenerateIntelligentFilter ==
    /\ f_calls < MaxCalls
    /\ \E resp \in LlmResponses, run \in LocalRuns :
         LET g == _generate_intelligent_filter(resp, run) IN
         /\ f_in' = [resp |-> resp, run |-> run]
         /\ f_out' = g.out
         /\ f_invoked' = g.invoked
    /\ f_calls' = f_calls + 1
    /\ UNCHANGED <<llama_only_mode, llm_type>>

(***************************************************************************)
(* PART 2 - the authenticated transport and its retry on 401.              *)
(*                                                                         *)
(* Tokens are numbers: NoToken is None, DummyToken is the constant         *)
(* "dummy_token_for_testing", every token the OAuth endpoint issues is a   *)
(* larger number.  Time is counted in seconds.                             *)
(***************************************************************************)
VARIABLES
    now,               \* the wall clock (datetime.now()), in seconds
    has_token_url,     \* the configuration defines a non-empty TOKEN_URL
    access_token,      \* MultiEndpointAgent.access_token
    token_expiry,      \* MultiEndpointAgent.token_expiry (NoExpiry is None)
    issued,            \* the last token the OAuth endpoint issued
    config_auth_token, \* EnhancedMultiEndpointAgent.config.auth_token
    t_out,             \* the last transport invocation: the operation, its
                       \* result, the requests sent and what each received
    t_calls            \* number of invocations so far

transportVars ==
    <<has_token_url, access_token, token_expiry, issued, config_auth_token,
      t_out, t_calls>>

NoToken == 0
DummyToken == 1
NoExpiry == -1

\* Bound: the responses the server has ready for one invocation.
MaxAttempts == 3

\* The instants at which the clock is read.
TimePoints == {0, 100, 299, 300, 3600, 86400, 86500}

\* A response of the target endpoint.  status 0 is a network failure before
\* any status is received; parses says whether response.json() succeeds.
ServerResponses ==
    { [status |-> 200, parses |-> TRUE], [status |-> 200, parses |-> FALSE],
      [status |-> 401, parses |-> TRUE], [status |-> 500, parses |-> TRUE],
      [status |-> 0, parses |-> FALSE] }

\* What the server answers to the successive requests of one invocation.  A
\* server that has answered something else than 401 repeats that answer.
ServerScripts ==
    { server \in [1..MaxAttempts -> ServerResponses] :
        \A i \in 1..(MaxAttempts - 1) :
            server[i].status # 401 => server[i + 1] = server[i] }

\* An outcome of the OAuth endpoint: a token is issued, the status is not
\* 200, or the request fails.  One invocation asks for a token at most
\* twice per request it sends.
TokenOutcomes == {"issued", "non200", "error"}
TokenScripts == [1..(MaxAttempts + 1) -> TokenOutcomes]

\* APIConfig defines no TOKEN_URL (config/api_config.py); a configuration
\* with a token URL is the other case.
EndpointNames == {"requests", "urgency", "service_catalog", "users"}

\* What an invocation hands back: the parsed body, a dict with an 'error'
\* key, or an exception.
ErrorDict == "error"
BodyResult == "body"
RaisedResult == "raised"

\* A request sent to the target endpoint: the token it carried and the
\* status it received.
Sent(token, response) == [token |-> token, status |-> response.status]

\* The token state threaded through one invocation: tok and exp are the
\* cached token and its expiry, iss the last token issued, k the number of
\* OAuth outcomes consumed.
TokState(tok, exp, iss, k) == [tok |-> tok, exp |-> exp, iss |-> iss, k |-> k]

\* MultiEndpointAgent.get_access_token_retry
get_access_token_retry(st, ts) ==
    IF ts[st.k + 1] = "issued"
    THEN [token |-> st.iss + 1,
          st |-> TokState(st.iss + 1, now + 3600 - 60, st.iss + 1, st.k + 1)]
    ELSE [token |-> NoToken, st |-> TokState(st.tok, st.exp, st.iss, st.k + 1)]

\* MultiEndpointAgent.get_access_token
get_access_token(st, ts) ==
    IF st.tok # NoToken /\ st.exp # NoExpiry /\ now < st.exp
    THEN [token |-> st.tok, st |-> st]
    ELSE IF ~has_token_url
    THEN [token |-> DummyToken, st |-> TokState(DummyToken, now + 3600, st.iss, st.k)]
    ELSE IF ts[st.k + 1] = "issued"
    THEN [token |-> st.iss + 1,
          st |-> TokState(st.iss + 1, now + 3600 - 60, st.iss + 1, st.k + 1)]
    ELSE IF ts[st.k + 1] = "non200"
    THEN get_access_token_retry(TokState(NoToken, NoExpiry, st.iss, st.k + 1), ts)
    ELSE [token |-> NoToken, st |-> TokState(st.tok, st.exp, st.iss, st.k + 1)]

\* A retry condition that allows a second retry.
RetryAllowed_twice(retry_count) == retry_count <= 1

\* The retry condition of make_api_request (line 204): a 401 is retried only
\* by the invocation the caller made, whose retry_count is 0.
RetryAllowed(retry_count) == retry_count = 0

\* MultiEndpointAgent.make_api_request: the returned dict, the requests
\* sent to the target endpoint (the token each one carried) and the token
\* state left behind.  sent holds the requests of the outer invocations.
RECURSIVE make_api_request(_, _, _, _, _, _)
make_api_request(endpoint_name, st, ts, server, sent, retry_count) ==
    IF endpoint_name \notin EndpointNames
    THEN [result |-> ErrorDict, sent |-> sent, st |-> st]
    ELSE LET t == get_access_token(st, ts) IN
         IF t.token = NoToken
         THEN [result |-> ErrorDict, sent |-> sent, st |-> t.st]
         ELSE LET response == server[Len(sent) + 1]
                  sent1 == Append(sent, Sent(t.token, response))
              IN  IF response.status = 0
                  THEN [result |-> ErrorDict, sent |-> sent1, st |-> t.st]
                  ELSE IF response.status = 200
                  THEN [result |-> IF response.parses THEN BodyResult ELSE ErrorDict,
                        sent |-> sent1, st |-> t.st]
                  ELSE IF response.status = 401 /\ RetryAllowed(retry_count)
                  THEN make_api_request(endpoint_name,
                           TokState(NoToken, NoExpiry, t.st.iss, t.st.k),
                           ts, server, sent1, retry_count + 1)
                  ELSE [result |-> ErrorDict, sent |-> sent1, st |-> t.st]

\* Config.get_headers with Config._get_access_token of the enhanced agent:
\* a token is requested when none is cached; a failed request leaves None.
get_headers(st, ts) ==
    IF st.tok # NoToken THEN [token |-> st.tok, st |-> st]
    ELSE IF ts[st.k + 1] = "issued"
    THEN [token |-> st.iss + 1, st |-> TokState(st.iss + 1, NoExpiry, st.iss + 1, st.k + 1)]
    ELSE [token |-> NoToken, st |-> TokState(NoToken, NoExpiry, st.iss, st.k + 1)]

\* The number of attempts of _execute_api_call (line 497).
max_retries == 2

\* EnhancedMultiEndpointAgent._execute_api_call, from attempt number attempt
\* on: the body returned or the exception raised.
RECURSIVE _execute_api_call(_, _, _, _, _, _)
_execute_api_call(endpoint, st, ts, server, sent, attempt) ==
    IF attempt >= max_retries
    THEN [result |-> RaisedResult, sent |-> sent, st |-> st]
    ELSE IF endpoint # "requests"
    THEN [result |-> RaisedResult, sent |-> sent, st |-> st]
    ELSE LET h == get_headers(st, ts)
             response == server[Len(sent) + 1]
             sent1 == Append(sent, Sent(h.token, response))
         IN  IF response.status = 0
             THEN [result |-> RaisedResult, sent |-> sent1, st |-> h.st]
             ELSE IF response.status = 401 /\ attempt < max_retries - 1
             THEN _execute_api_call(endpoint,
                      TokState(NoToken, NoExpiry, h.st.iss, h.st.k),
                      ts, server, sent1, attempt + 1)
             ELSE IF response.status >= 400
             THEN [result |-> RaisedResult, sent |-> sent1, st |-> h.st]
             ELSE [result |-> IF response.parses THEN BodyResult ELSE RaisedResult,
                   sent |-> sent1, st |-> h.st]

\* Without a token URL the OAuth endpoint is never contacted.
OAuthScripts ==
    IF has_token_url THEN TokenScripts ELSE {[i \in 1..(MaxAttempts + 1) |-> "error"]}

TransportIdle ==
    /\ access_token = NoToken
    /\ token_expiry = NoExpiry
    /\ issued = DummyToken
    /\ config_auth_token = NoToken
    /\ t_out = [op |-> "none", endpoint |-> "requests", result |-> ErrorDict, sent |-> <<>>]
    /\ t_calls = 0

TransportInit ==
    /\ now = 0
    /\ has_token_url \in BOOLEAN
    /\ TransportIdle

Tick ==
    /\ \E t \in TimePoints : t > now /\ now' = t

\* One invocation of MultiEndpointAgent.make_api_request.
MakeApiRequest ==
    /\ t_calls < MaxCalls
    /\ \E e \in {"requests", "unknown"}, server \in ServerScripts, ts \in OAuthScripts :
         LET r == make_api_request(e, TokState(access_token, token_expiry, issued, 0),
                                   ts, server, <<>>, 0) IN
         /\ t_out' = [op |-> "make_api_request", endpoint |-> e,
                      result |-> r.result, sent |-> r.sent]
         /\ access_token' = r.st.tok
         /\ token_expiry' = r.st.exp
         /\ issued' = r.st.iss
    /\ t_calls' = t_calls + 1
    /\ UNCHANGED <<has_token_url, config_auth_token>>

\* One invocation of EnhancedMultiEndpointAgent._execute_api_call.
ExecuteApiCall ==
    /\ t_calls < MaxCalls
    /\ \E e \in {"requests", "unknown"}, server \in ServerScripts, ts \in TokenScripts :
         LET r == _execute_api_call(e, TokState(config_auth_token, NoExpiry, issued, 0),
                                    ts, server, <<>>, 0) IN
         /\ t_out' = [op |-> "_execute_api_call", endpoint |-> e,
                      result |-> r.result, sent |-> r.sent]
         /\ config_auth_token' = r.st.tok
         /\ issued' = r.st.iss
    /\ t_calls' = t_calls + 1
    /\ UNCHANGED <<has_token_url, access_token, token_expiry>>

(***************************************************************************)
(* PART 3 - reference data of MultiEndpointAgent.                          *)
(*                                                                         *)
(* A Python dict is a sequence of key/value pairs in insertion order.      *)
(***************************************************************************)
VARIABLES
    user_mapping, user_mapping_loaded,
    urgency_mapping, urgency_mapping_loaded,
    service_catalog_mapping, service_catalog_mapping_loaded,
    m_out              \* the last reference-data call: the operation, whether
                       \* it contacted the API, the kind of response it met and
                       \* whether it raised

meaVars ==
    <<user_mapping, user_mapping_loaded, urgency_mapping, urgency_mapping_loaded,
      service_catalog_mapping, service_catalog_mapping_loaded, m_out>>

EmptyDict == <<>>
DictHas(d, k) == \E i \in 1..Len(d) : d[i].k = k
DictGet(d, k) == d[CHOOSE i \in 1..Len(d) : d[i].k = k].v
\* d[k] = v: an existing key keeps its position.
DictSet(d, k, v) ==
    IF DictHas(d, k)
    THEN [i \in 1..Len(d) |-> IF d[i].k = k THEN [k |-> k, v |-> v] ELSE d[i]]
    ELSE Append(d, [k |-> k, v |-> v])
DictKeys(d) == [i \in 1..Len(d) |-> d[i].k]
DictValues(d) == [i \in 1..Len(d) |-> d[i].v]

\* str.lower() on the names that occur in the model.
Lower(str) ==
    CASE str = "John" -> "john"
      [] str = "High" -> "high"
      [] str = "Open" -> "open"
      [] str = "In Progress" -> "in progress"
      [] str = "Pending" -> "pending"
      [] str = "Resolved" -> "resolved"
      [] str = "Closed" -> "closed"
      [] OTHER -> str

\* JSON null where a string is expected, an id that is a string and not a
\* number, and an id that is absent, null or 0 (all falsy).
NullStr == "<null>"
NonNumeric == -1
NoId == 0

\* The entries of a response body.  kind says what the entry is: a dict (for
\* the users endpoint, a non-empty list of session dicts), "empty" (null or an
\* empty session list) or "scalar" (a number).  key is the user id under
\* which the users endpoint files the entry.
Entry(key, kind, name, alt, id) ==
    [key |-> key, kind |-> kind, name |-> name, alt |-> alt, id |-> id]
EntrySamples ==
    { Entry(7, "dict", "John", "john@x.com", 7),
      Entry(8, "dict", "", "", NoId),
      Entry(NonNumeric, "dict", "High", "", NonNumeric),
      Entry(9, "dict", NullStr, "", 9),
      Entry(6, "empty", "", "", NoId) }

\* Bound: the number of entries of a response body.
MaxEntries == 2

EntryLists ==
    UNION { [1..n -> EntrySamples] : n \in 0..MaxEntries }

\* The parsed JSON bodies: a list of entries, a dict keyed by user id, a dict
\* with an 'error' key, a dict that wraps the entries in 'objectList', and a
\* scalar (a number, true, null).
BodyShapes == {"list", "user_dict", "error_dict", "object_list", "scalar"}
Bodies ==
    { [shape |-> sh, entries |-> es] : sh \in {"list", "user_dict", "object_list"},
                                       es \in EntryLists }
    \cup { [shape |-> sh, entries |-> <<>>] : sh \in {"error_dict", "scalar"} }

Loaded(mapping) == [raised |-> FALSE, mapping |-> mapping]
LoadRaised(mapping) == [raised |-> TRUE, mapping |-> mapping]

\* The loop of get_user_mapping (lines 233-242) from entry i on; acc is
\* self.user_mapping so far.  int(user_id) raises on a key that is no number.
RECURSIVE ParseUserSessions(_, _, _)
ParseUserSessions(entries, i, acc) ==
    IF i > Len(entries) THEN Loaded(acc)
    ELSE LET e == entries[i] IN
         IF e.kind = "empty" THEN ParseUserSessions(entries, i + 1, acc)
         ELSE IF e.kind # "dict" \/ e.name = NullStr \/ e.alt = NullStr THEN LoadRaised(acc)
         ELSE LET user_name == Lower(e.name)
                  email == Lower(e.alt)
                  acc1 == IF user_name # "" THEN DictSet(acc, user_name, e.key) ELSE acc
              IN  IF user_name # "" /\ e.key = NonNumeric THEN LoadRaised(acc)
                  ELSE IF email # "" /\ email # user_name
                  THEN IF e.key = NonNumeric THEN LoadRaised(acc1)
                       ELSE ParseUserSessions(entries, i + 1, DictSet(acc1, email, e.key))
                  ELSE ParseUserSessions(entries, i + 1, acc1)

\* response.items() of a body: a list has no items(); 'objectList' is a key
\* like any other, its value the list of entries.
UserItems(body) ==
    IF body.shape = "user_dict" THEN body.entries
    ELSE IF body.entries = <<>> THEN <<Entry(NonNumeric, "empty", "", "", NoId)>>
    ELSE <<[body.entries[1] EXCEPT !.key = NonNumeric,
                               !.kind = IF @ = "dict" THEN "dict" ELSE "scalar"]>>

\* The loops of get_urgency_mapping (lines 262-270) and of
\* get_service_catalog_mapping (lines 291-299), which are the same.
RECURSIVE ParseNamedList(_, _, _)
ParseNamedList(entries, i, acc) ==
    IF i > Len(entries) THEN Loaded(acc)
    ELSE LET e == entries[i] IN
         IF e.kind # "dict" \/ e.name = NullStr \/ e.alt = NullStr THEN LoadRaised(acc)
         ELSE LET name == Lower(e.name)
                  system_name == Lower(e.alt)
                  acc1 == IF name # "" /\ e.id # NoId THEN DictSet(acc, name, e.id) ELSE acc
                  acc2 == IF system_name # "" /\ system_name # name
                          THEN DictSet(acc1, system_name, e.id) ELSE acc1
              IN  ParseNamedList(entries, i + 1, acc2)

\* A reference-data call: what it returns or raises, the cache it leaves
\* (mapping, loaded), whether it contacted the API, and the token state.
MeaCall(raised, ret, mapping, loaded, fetched, st) ==
    [raised |-> raised, ret |-> ret, mapping |-> mapping, loaded |-> loaded,
     fetched |-> fetched, st |-> st]

\* MultiEndpointAgent.get_user_mapping; r is what make_api_request('users')
\* does and body the JSON it returns when it returns one.
get_user_mapping(r, body) ==
    IF user_mapping_loaded
    THEN MeaCall(FALSE, user_mapping, user_mapping, TRUE, FALSE,
                 TokState(access_token, token_expiry, issued, 0))
    ELSE IF r.result = ErrorDict \/ body.shape = "error_dict"
    THEN MeaCall(FALSE, EmptyDict, user_mapping, FALSE, TRUE, r.st)
    ELSE IF body.shape = "scalar"
    THEN MeaCall(TRUE, EmptyDict, user_mapping, FALSE, TRUE, r.st)
    ELSE IF body.shape = "list"
    THEN MeaCall(TRUE, EmptyDict, EmptyDict, FALSE, TRUE, r.st)
    ELSE LET p == ParseUserSessions(UserItems(body), 1, EmptyDict) IN
         IF p.raised THEN MeaCall(TRUE, EmptyDict, p.mapping, FALSE, TRUE, r.st)
         ELSE MeaCall(FALSE, p.mapping, p.mapping, TRUE, TRUE, r.st)

\* The body shared by get_urgency_mapping and get_service_catalog_mapping.
NamedMappingCall(loaded, mapping, r, body) ==
    IF loaded
    THEN MeaCall(FALSE, mapping, mapping, TRUE, FALSE,
                 TokState(access_token, token_expiry, issued, 0))
    ELSE IF r.result = ErrorDict \/ body.shape = "error_dict"
    THEN MeaCall(FALSE, EmptyDict, mapping, FALSE, TRUE, r.st)
    ELSE IF body.shape = "scalar"
    THEN MeaCall(TRUE, EmptyDict, mapping, FALSE, TRUE, r.st)
    ELSE IF body.shape # "list"
    THEN MeaCall(FALSE, EmptyDict, EmptyDict, TRUE, TRUE, r.st)
    ELSE LET p == ParseNamedList(body.entries, 1, EmptyDict) IN
         IF p.raised THEN MeaCall(TRUE, EmptyDict, p.mapping, FALSE, TRUE, r.st)
         ELSE MeaCall(FALSE, p.mapping, p.mapping, TRUE, TRUE, r.st)

\* MultiEndpointAgent.get_urgency_mapping
get_urgency_mapping(r, body) ==
    NamedMappingCall(urgency_mapping_loaded, urgency_mapping, r, body)

\* MultiEndpointAgent.get_service_catalog_mapping
get_service_catalog_mapping(r, body) ==
    NamedMappingCall(service_catalog_mapping_loaded, service_catalog_mapping, r, body)

\* What make_api_request can do in the current token state: its result and
\* the token state it leaves.
TransportOutcomes(endpoint_name) ==
    { LET r == make_api_request(endpoint_name,
                   TokState(access_token, token_expiry, issued, 0), ts, server, <<>>, 0)
      IN  [result |-> r.result, st |-> r.st] :
      server \in ServerScripts, ts \in OAuthScripts }

NoBody == [shape |-> "error_dict", entries |-> <<>>]
BodiesOf(r) == IF r.result = BodyResult THEN Bodies ELSE {NoBody}

MeaIdle ==
    /\ user_mapping = EmptyDict /\ user_mapping_loaded = FALSE
    /\ urgency_mapping = EmptyDict /\ urgency_mapping_loaded = FALSE
    /\ service_catalog_mapping = EmptyDict /\ service_catalog_mapping_loaded = FALSE
    /\ m_out = [op |-> "none", raised |-> FALSE, fetched |-> FALSE, shape |-> "error_dict",
                plain |-> TRUE]

\* The entries of a body are plain when each is a dict whose name is a string
\* or absent.
PlainEntries(body) ==
    \A i \in 1..Len(body.entries) :
        body.entries[i].kind = "dict" /\ body.entries[i].name # NullStr

MeaOut(op, c, body) ==
    [op |-> op, raised |-> c.raised, fetched |-> c.fetched,
     shape |-> IF c.fetched THEN body.shape ELSE "error_dict",
     plain |-> IF c.fetched THEN PlainEntries(body) ELSE TRUE]

TokenLeft(c) ==
    /\ access_token' = c.st.tok
    /\ token_expiry' = c.st.exp
    /\ issued' = c.st.iss

\* One call of MultiEndpointAgent.get_user_mapping.
GetUserMapping ==
    /\ \E r \in IF user_mapping_loaded THEN {[result |-> ErrorDict, st |-> TokState(0, 0, 0, 0)]}
                ELSE TransportOutcomes("users") :
         \E body \in BodiesOf(r) :
            LET c == get_user_mapping(r, body) IN
            /\ user_mapping' = c.mapping
            /\ user_mapping_loaded' = c.loaded
            /\ m_out' = MeaOut("get_user_mapping", c, body)
            /\ TokenLeft(c)
    /\ UNCHANGED <<urgency_mapping, urgency_mapping_loaded,
                   service_catalog_mapping, service_catalog_mapping_loaded,
                   has_token_url, config_auth_token, t_out, t_calls>>

\* One call of MultiEndpointAgent.get_urgency_mapping.
GetUrgencyMapping ==
    /\ \E r \in IF urgency_mapping_loaded THEN {[result |-> ErrorDict, st |-> TokState(0, 0, 0, 0)]}
                ELSE TransportOutcomes("urgency") :
         \E body \in BodiesOf(r) :
            LET c == get_urgency_mapping(r, body) IN
            /\ urgency_mapping' = c.mapping
            /\ urgency_mapping_loaded' = c.loaded
            /\ m_out' = MeaOut("get_urgency_mapping", c, body)
            /\ TokenLeft(c)
    /\ UNCHANGED <<user_mapping, user_mapping_loaded,
                   service_catalog_mapping, service_catalog_mapping_loaded,
                   has_token_url, config_auth_token, t_out, t_calls>>

\* One call of MultiEndpointAgent.get_service_catalog_mapping.
GetServiceCatalogMapping ==
    /\ \E r \in IF service_catalog_mapping_loaded
                THEN {[result |-> ErrorDict, st |-> TokState(0, 0, 0, 0)]}
                ELSE TransportOutcomes("service_catalog") :
         \E body \in BodiesOf(r) :
            LET c == get_service_catalog_mapping(r, body) IN
            /\ service_catalog_mapping' = c.mapping
            /\ service_catalog_mapping_loaded' = c.loaded
            /\ m_out' = MeaOut("get_service_catalog_mapping", c, body)
            /\ TokenLeft(c)
    /\ UNCHANGED <<user_mapping, user_mapping_loaded, urgency_mapping, urgency_mapping_loaded,
                   has_token_url, config_auth_token, t_out, t_calls>>

(***************************************************************************)
(* PART 4 - the field mappings cache of EnhancedMultiEndpointAgent.        *)
(***************************************************************************)
VARIABLES
    cache_timestamp,       \* self.cache_timestamp (NoExpiry is None)
    mappings_cache,        \* self.mappings_cache
    llm_field_mappings,    \* self.llm_agent.field_mappings
    local_field_mappings,  \* self.local_agent.field_mappings
    e_out                  \* the last call of _update_field_mappings: whether a
                           \* cache existed, its age, and whether the APIs were
                           \* contacted

enhancedVars ==
    <<cache_timestamp, mappings_cache, llm_field_mappings, local_field_mappings, e_out>>

\* Bound: the tokens the OAuth endpoint issues to the fetchers.
MaxIssued == 3

\* self.cache_duration (line 119), in seconds.
cache_duration == 300

\* timedelta.seconds: the seconds of a duration once its whole days are taken
\* out (timedelta normalises to days, seconds, microseconds).
SecondsPerDay == 86400
timedelta_seconds(delta) == delta % SecondsPerDay

KV(k, v) == [k |-> k, v |-> v]

\* The tables the APIs serve in the model, and the tables the fetchers fall
\* back to.
LivePriority == <<KV("low", 1), KV("medium", 2), KV("high", 3), KV("urgent", 4)>>
LiveStatus ==
    <<KV("open", 9), KV("in progress", 10), KV("pending", 11), KV("resolved", 12),
      KV("closed", 13)>>
LiveUsers == <<KV("john", 7)>>
LiveCategories == <<KV("hardware", 3)>>
FallbackPriority == <<KV("low", 1), KV("medium", 2), KV("high", 3), KV("critical", 4)>>
FallbackStatus == <<KV("open", 9), KV("in progress", 10), KV("pending", 11), KV("closed", 13)>>
FallbackUsers == EmptyDict
FallbackCategories ==
    <<KV("it", 5), KV("hr", 7), KV("facilities", 9), KV("finance", 11), KV("security", 13)>>
Locations ==
    <<KV("new york", 10), KV("london", 15), KV("tokyo", 20), KV("sydney", 25), KV("berlin", 30)>>

\* Each fetcher returns the table parsed from the API, or its fallback once
\* the request has failed (network error, 401 twice, another error status,
\* unparsable body).
_fetch_priority_mapping(ok) == IF ok THEN LivePriority ELSE FallbackPriority
_fetch_status_mapping(ok) == IF ok THEN LiveStatus ELSE FallbackStatus
_fetch_user_mapping(ok) == IF ok THEN LiveUsers ELSE FallbackUsers
_fetch_location_mapping == Locations
_fetch_category_mapping(ok) == IF ok THEN LiveCategories ELSE FallbackCategories

FieldMappings(priority, status, users, locations, categories) ==
    [priority |-> priority, status |-> status, users |-> users,
     locations |-> locations, categories |-> categories]
\* The field mappings of a newly built agent, and the empty mappings_cache.
NoMappings == FieldMappings(EmptyDict, EmptyDict, EmptyDict, EmptyDict, EmptyDict)

FetchCategories == {"priority", "status", "users", "categories"}

\* The cache check of _update_field_mappings (lines 184-185).
CacheValid ==
    /\ cache_timestamp # NoExpiry
    /\ timedelta_seconds(now - cache_timestamp) < cache_duration

\* EnhancedMultiEndpointAgent._update_field_mappings; ok says which fetches
\* succeed.  Without an LLM agent, line 210 raises before the local agent and
\* the cache are updated, and the handler finds no cache to fall back to.
_update_field_mappings(ok) ==
    IF CacheValid
    THEN [fetched |-> FALSE, cache |-> mappings_cache, timestamp |-> cache_timestamp,
          llm |-> llm_field_mappings, local |-> local_field_mappings]
    ELSE LET mappings == FieldMappings(_fetch_priority_mapping(ok["priority"]),
                                       _fetch_status_mapping(ok["status"]),
                                       _fetch_user_mapping(ok["users"]),
                                       _fetch_location_mapping,
                                       _fetch_category_mapping(ok["categories"]))
         IN  IF llm_agent
             THEN [fetched |-> TRUE, cache |-> mappings, timestamp |-> now,
                   llm |-> mappings, local |-> mappings]
             ELSE [fetched |-> TRUE, cache |-> mappings_cache, timestamp |-> cache_timestamp,
                   llm |-> llm_field_mappings, local |-> local_field_mappings]

EnhancedIdle ==
    /\ cache_timestamp = NoExpiry
    /\ mappings_cache = NoMappings
    /\ llm_field_mappings = NoMappings
    /\ local_field_mappings = NoMappings
    /\ e_out = [op |-> "none", cached |-> FALSE, elapsed |-> 0, fetched |-> FALSE]

\* One call of _update_field_mappings.  The fetchers ask for a token when
\* none is cached and drop the cached one on a 401: the token they leave is
\* the one they found, none, or a new one.
UpdateFieldMappings ==
    /\ \E ok \in [FetchCategories -> BOOLEAN] :
         LET u == _update_field_mappings(ok) IN
         /\ mappings_cache' = u.cache
         /\ cache_timestamp' = u.timestamp
         /\ llm_field_mappings' = u.llm
         /\ local_field_mappings' = u.local
         /\ e_out' = [op |-> "_update_field_mappings",
                      cached |-> cache_timestamp # NoExpiry,
                      elapsed |-> IF cache_timestamp # NoExpiry THEN now - cache_timestamp ELSE 0,
                      fetched |-> u.fetched]
         /\ IF u.fetched
            THEN \/ UNCHANGED <<config_auth_token, issued>>
                 \/ config_auth_token' = NoToken /\ UNCHANGED issued
                 \/ /\ issued < MaxIssued
                    /\ config_auth_token' = issued + 1 /\ issued' = issued + 1
            ELSE UNCHANGED <<config_auth_token, issued>>
    /\ UNCHANGED <<has_token_url, access_token, token_expiry, t_out, t_calls>>

(***************************************************************************)
(* PART 5 - text: Python strings and the re module.                        *)
(*                                                                         *)
(* A string is a sequence of characters.  A regular expression is a tree   *)
(* of nodes; Match lists the ways a node can match at a position, in the   *)
(* order in which the backtracking matcher of re tries them, so the head   *)
(* of the list is the match re reports.                                    *)
(***************************************************************************)
LowerLetters ==
    {"a","b","c","d","e","f","g","h","i","j","k","l","m",
     "n","o","p","q","r","s","t","u","v","w","x","y","z"}
UpperLetters ==
    {"A","B","C","D","E","F","G","H","I","J","K","L","M",
     "N","O","P","Q","R","S","T","U","V","W","X","Y","Z"}
DigitChars == {"0","1","2","3","4","5","6","7","8","9"}
SpaceChars == {" "}
WordChars == LowerLetters \cup UpperLetters \cup DigitChars \cup {"_"}

\* str.lower(), one character at a time.
LowerChar(c) ==
    CASE c = "A" -> "a" [] c = "B" -> "b" [] c = "C" -> "c" [] c = "D" -> "d"
      [] c = "E" -> "e" [] c = "F" -> "f" [] c = "G" -> "g" [] c = "H" -> "h"
      [] c = "I" -> "i" [] c = "J" -> "j" [] c = "K" -> "k" [] c = "L" -> "l"
      [] c = "M" -> "m" [] c = "N" -> "n" [] c = "O" -> "o" [] c = "P" -> "p"
      [] c = "Q" -> "q" [] c = "R" -> "r" [] c = "S" -> "s" [] c = "T" -> "t"
      [] c = "U" -> "u" [] c = "V" -> "v" [] c = "W" -> "w" [] c = "X" -> "x"
      [] c = "Y" -> "y" [] c = "Z" -> "z" [] OTHER -> c
StrLower(s) == [i \in 1..Len(s) |-> LowerChar(s[i])]

\* sub in s, and s.find(sub) as a position from 1 (0 when absent).
StartsAt(s, sub, i) ==
    /\ i + Len(sub) - 1 <= Len(s)
    /\ \A j \in 1..Len(sub) : s[i + j - 1] = sub[j]
StrIn(sub, s) == \E i \in 1..(Len(s) + 1) : StartsAt(s, sub, i)
StrFind(s, sub) ==
    IF StrIn(sub, s)
    THEN CHOOSE i \in 1..(Len(s) + 1) :
            StartsAt(s, sub, i) /\ \A j \in 1..(i - 1) : ~StartsAt(s, sub, j)
    ELSE 0

\* s.strip() for the whitespace of the model.
Inked(s) == {i \in 1..Len(s) : s[i] \notin SpaceChars}
Least(S) == CHOOSE i \in S : \A j \in S : i <= j
Greatest(S) == CHOOSE i \in S : \A j \in S : i >= j
StrStrip(s) == IF Inked(s) = {} THEN <<>> ELSE SubSeq(s, Least(Inked(s)), Greatest(Inked(s)))

\* s.split(sep)
RECURSIVE StrSplit(_, _)
StrSplit(s, sep) ==
    LET i == StrFind(s, sep) IN
    IF i = 0 THEN <<s>>
    ELSE <<SubSeq(s, 1, i - 1)>> \o StrSplit(SubSeq(s, i + Len(sep), Len(s)), sep)

\* s.split(): the words between runs of whitespace.
WordStarts(s) == {i \in Inked(s) : i = 1 \/ s[i - 1] \in SpaceChars}
WordEnds(s) == {i \in Inked(s) : i = Len(s) \/ s[i + 1] \in SpaceChars}
StrWords(s) ==
    LET starts == WordStarts(s)
        ends == WordEnds(s)
        nth(S, k) == CHOOSE i \in S : Cardinality({j \in S : j < i}) = k - 1
    IN  [k \in 1..Cardinality(starts) |-> SubSeq(s, nth(starts, k), nth(ends, k))]

\* The characters of s that are in cs, in order.
StrKeep(s, cs) == SelectSeq(s, LAMBDA c : c \in cs)

SeqRange(q) == {q[i] : i \in 1..Len(q)}

\* The nodes of a regular expression.
ReNode(t, cs, a, n) == [t |-> t, cs |-> cs, a |-> a, n |-> n]
ReSet(cs) == ReNode("set", cs, <<>>, 0)           \* [...]
ReNotSet(cs) == ReNode("nset", cs, <<>>, 0)       \* [^...]
ReLit(chars) == ReNode("lit", {}, chars, 0)       \* literal text
ReCat(a) == ReNode("cat", {}, a, 0)               \* concatenation
ReAlt(a) == ReNode("alt", {}, a, 0)               \* a|b|c
ReStar(x) == ReNode("rep", {}, <<x>>, 0)          \* x*
RePlus(x) == ReNode("rep", {}, <<x>>, 1)          \* x+
ReLazyPlus(x) == ReNode("lazy", {}, <<x>>, 1)     \* x+?
ReAtLeast(n, x) == ReNode("rep", {}, <<x>>, n)    \* x{n,}
ReLazyAtLeast(n, x) == ReNode("lazy", {}, <<x>>, n) \* x{n,}?
ReOpt(x) == ReNode("opt", {}, <<x>>, 0)           \* x?
ReGroup(n, x) == ReNode("grp", {}, <<x>>, n)      \* the n-th capturing group
ReEnd == ReNode("eos", {}, <<>>, 0)               \* $
ReWordBoundary == ReNode("wb", {}, <<>>, 0)       \* \b
ReLookahead(x) == ReNode("la", {}, <<x>>, 0)      \* (?=x)
ReNotLookahead(x) == ReNode("nla", {}, <<x>>, 0)  \* (?!x)
ReSpace == ReSet(SpaceChars)                      \* \s
ReWord == ReSet(WordChars)                        \* \w
ReDigit == ReSet(DigitChars)                      \* \d

\* Bound: the capturing groups of one regular expression.
MaxGroups == 3
NoSpan == [b |-> 0, e |-> 0]
NoCaps == [g \in 1..MaxGroups |-> NoSpan]
Way(e, c) == [e |-> e, c |-> c]

IsWordAt(s, i) == i >= 1 /\ i <= Len(s) /\ s[i] \in WordChars
Accepts(x, ch) == (x.t = "set" /\ ch \in x.cs) \/ (x.t = "nset" /\ ch \notin x.cs)
\* The number of characters from position i on that x (a set node) accepts.
RunLength(x, s, i) ==
    IF i > Len(s) THEN 0
    ELSE Least({j \in i..Len(s) : ~Accepts(x, s[j])} \cup {Len(s) + 1}) - i

\* Marks in the list of nodes still to match: the end of group n that began
\* at from, and the end of one repetition that began at from.
ReClose(n, from) == [t |-> "close", cs |-> {}, a |-> <<>>, n |-> n, from |-> from]
ReMoved(from) == [t |-> "moved", cs |-> {}, a |-> <<>>, n |-> 0, from |-> from]
ReOneLess(x) == [x EXCEPT !.n = IF x.n > 0 THEN x.n - 1 ELSE 0]

\* The first of the attempts that succeeded: backtracking takes the
\* alternatives in order.
FirstOf(attempts) ==
    LET succeeded == SelectSeq(attempts, LAMBDA w : w # <<>>) IN
    IF succeeded = <<>> THEN <<>> ELSE succeeded[1]

\* The way the backtracking matcher finds for the nodes, one after the
\* other, from position i of s on with the groups c captured so far: <<>> or
\* one Way.
RECURSIVE Match(_, _, _, _)
Match(nodes, s, i, c) ==
    IF nodes = <<>> THEN <<Way(i, c)>>
    ELSE
    LET x == nodes[1]
        rest == Tail(nodes)
    IN
    CASE x.t \in {"set", "nset"} ->
            IF i <= Len(s) /\ Accepts(x, s[i]) THEN Match(rest, s, i + 1, c) ELSE <<>>
      [] x.t = "lit" ->
            IF StartsAt(s, x.a, i) THEN Match(rest, s, i + Len(x.a), c) ELSE <<>>
      [] x.t = "cat" -> Match(x.a \o rest, s, i, c)
      [] x.t = "alt" -> FirstOf([k \in 1..Len(x.a) |-> Match(<<x.a[k]>> \o rest, s, i, c)])
      [] x.t = "opt" -> FirstOf(<<Match(<<x.a[1]>> \o rest, s, i, c), Match(rest, s, i, c)>>)
      [] x.t = "lazyopt" ->
            FirstOf(<<Match(rest, s, i, c), Match(<<x.a[1]>> \o rest, s, i, c)>>)
      [] x.t \in {"rep", "lazy"} /\ x.a[1].t \in {"set", "nset"} ->
            LET run == RunLength(x.a[1], s, i) IN
            IF run < x.n THEN <<>>
            ELSE IF x.t = "rep"
            THEN FirstOf([k \in 1..(run - x.n + 1) |-> Match(rest, s, i + run - k + 1, c)])
            ELSE FirstOf([k \in 1..(run - x.n + 1) |-> Match(rest, s, i + x.n + k - 1, c)])
      [] x.t \in {"rep", "lazy"} /\ x.a[1].t \notin {"set", "nset"} ->
            LET more == Match(<<x.a[1], ReMoved(i), ReOneLess(x)>> \o rest, s, i, c)
                stop == IF x.n = 0 THEN Match(rest, s, i, c) ELSE <<>>
            IN  IF x.t = "rep" THEN FirstOf(<<more, stop>>) ELSE FirstOf(<<stop, more>>)
      [] x.t = "moved" -> IF i > x.from THEN Match(rest, s, i, c) ELSE <<>>
      [] x.t = "grp" -> Match(<<x.a[1], ReClose(x.n, i)>> \o rest, s, i, c)
      [] x.t = "close" -> Match(rest, s, i, [c EXCEPT ![x.n] = [b |-> x.from, e |-> i]])
      [] x.t = "eos" -> IF i = Len(s) + 1 THEN Match(rest, s, i, c) ELSE <<>>
      [] x.t = "bos" -> IF i = 1 THEN Match(rest, s, i, c) ELSE <<>>
      [] x.t = "wb" ->
            IF IsWordAt(s, i - 1) # IsWordAt(s, i) THEN Match(rest, s, i, c) ELSE <<>>
      [] x.t = "la" ->
            LET ahead == Match(<<x.a[1]>>, s, i, c) IN
            IF ahead # <<>> THEN Match(rest, s, i, ahead[1].c) ELSE <<>>
      [] x.t = "nla" -> IF Match(<<x.a[1]>>, s, i, c) = <<>> THEN Match(rest, s, i, c) ELSE <<>>

\* A match: where it starts, where it ends, and its groups as text.
Group(s, span) == IF span.b = 0 THEN <<>> ELSE SubSeq(s, span.b, span.e - 1)
Found(s, b, w) ==
    [found |-> TRUE, b |-> b, e |-> w.e, g |-> [k \in 1..MaxGroups |-> Group(s, w.c[k])],
     has |-> [k \in 1..MaxGroups |-> w.c[k].b # 0]]
NotFound ==
    [found |-> FALSE, b |-> 0, e |-> 0, g |-> [k \in 1..MaxGroups |-> <<>>],
     has |-> [k \in 1..MaxGroups |-> FALSE]]

\* re.search(re, s) from position i on.
\* re.search(re, s) from position i on: the leftmost match.
FoundAt(re, s, b) == Found(s, b, Match(<<re>>, s, b, NoCaps)[1])
Leftmost(re, s, starts) == IF starts = {} THEN NotFound ELSE FoundAt(re, s, Least(starts))
ReSearchFrom(re, s, i) ==
    Leftmost(re, s, {b \in i..(Len(s) + 1) : Match(<<re>>, s, b, NoCaps) # <<>>})
ReSearch(re, s) == ReSearchFrom(re, s, 1)

\* re.finditer(re, s): the matches from left to right, none overlapping.
RECURSIVE ReFindIterFrom(_, _, _)
AndOnFrom(re, s, m) ==
    IF ~m.found THEN <<>>
    ELSE <<m>> \o ReFindIterFrom(re, s, IF m.e > m.b THEN m.e ELSE m.e + 1)
ReFindIterFrom(re, s, i) == AndOnFrom(re, s, ReSearchFrom(re, s, i))
ReFindIter(re, s) == ReFindIterFrom(re, s, 1)

\* re.findall(re, s) for an expression with one group: the text of the group.
FirstGroups(ms) == [k \in 1..Len(ms) |-> ms[k].g[1]]
ReFindAll(re, s) == FirstGroups(ReFindIter(re, s))

(***************************************************************************)
(* PART 6 - MultiEndpointAgent: from a prompt to a qualification.          *)
(*                                                                         *)
(* The keys of a mapping are strings, that is sequences of characters.     *)
(***************************************************************************)

\* d.update(e)
RECURSIVE DictUpdate(_, _)
DictUpdate(d, e) ==
    IF e = <<>> THEN d ELSE DictUpdate(DictSet(d, e[1].k, e[1].v), Tail(e))

\* Scores are counted in units of 1/25200, which makes 0.6 + (a/b) * 0.2
\* a whole number for every b up to 10.
ScoreUnit == 25200
Score_1_0 == 25200
Score_0_8 == 20160
Score_0_7 == 17640
Score_0_6 == 15120
Score_0_5 == 12600
Score_0_4 == 10080
Score_0_2 == 5040

MaxOf(a, b) == IF a >= b THEN a ELSE b

\* MultiEndpointAgent._calculate_status_match_score
_calculate_status_match_score(search_term, status_name) ==
    IF search_term = status_name THEN Score_1_0
    ELSE IF StrIn(search_term, status_name) \/ StrIn(status_name, search_term) THEN Score_0_8
    ELSE LET search_words == SeqRange(StrWords(search_term))
             status_words == SeqRange(StrWords(status_name))
             common_chars == SeqRange(search_term) \cap SeqRange(status_name)
         IN  IF search_words \cap status_words # {}
             THEN Score_0_6 + (Cardinality(search_words \cap status_words) * Score_0_2)
                                 \div Cardinality(search_words \cup status_words)
             ELSE IF common_chars # {}
             THEN (Cardinality(common_chars) * Score_0_4)
                      \div MaxOf(Len(search_term), Len(status_name))
             ELSE 0

\* The separators of _parse_dynamic_status_list (line 650).
StatusSeparators == <<<<",">>, <<" ","a","n","d"," ">>, <<" ","o","r"," ">>, <<"&">>, <<"+">>, <<";">>>>

\* One round of the splitting loop (lines 653-657): every part split on sep,
\* every piece stripped.
RECURSIVE SplitParts(_, _)
SplitParts(parts, sep) ==
    IF parts = <<>> THEN <<>>
    ELSE LET pieces == StrSplit(parts[1], sep) IN
         [i \in 1..Len(pieces) |-> StrStrip(pieces[i])] \o SplitParts(Tail(parts), sep)

RECURSIVE SplitOnAll(_, _)
SplitOnAll(parts, seps) ==
    IF seps = <<>> THEN parts ELSE SplitOnAll(SplitParts(parts, seps[1]), Tail(seps))

\* The entries of mapping whose score against part is above threshold, with
\* their scores, in the order of the mapping.
RECURSIVE ScoredAbove(_, _, _)
ScoredAbove(part, mapping, threshold) ==
    IF mapping = <<>> THEN <<>>
    ELSE LET score == _calculate_status_match_score(part, mapping[1].k) IN
         (IF score > threshold
          THEN <<[k |-> mapping[1].k, v |-> mapping[1].v, score |-> score]>> ELSE <<>>)
         \o ScoredAbove(part, Tail(mapping), threshold)

\* The head of the matches after the stable sort by descending score: the
\* first match that no other match beats.
BestMatch(matches) ==
    matches[CHOOSE i \in 1..Len(matches) :
                /\ \A j \in 1..Len(matches) : matches[j].score <= matches[i].score
                /\ \A j \in 1..(i - 1) : matches[j].score < matches[i].score]

\* The loop over the parts of _parse_dynamic_status_list (lines 660-690).
RECURSIVE ResolveStatusParts(_, _, _)
ResolveStatusParts(parts, status_mapping, parsed_statuses) ==
    IF parts = <<>> THEN parsed_statuses
    ELSE LET part == StrStrip(StrKeep(parts[1], WordChars \cup SpaceChars))
             part_lower == StrLower(part)
             best_matches == ScoredAbove(part_lower, status_mapping, Score_0_7)
             rest == Tail(parts)
         IN  IF Len(part) < 2 THEN ResolveStatusParts(rest, status_mapping, parsed_statuses)
             ELSE IF DictHas(status_mapping, part_lower)
             THEN ResolveStatusParts(rest, status_mapping,
                      DictSet(parsed_statuses, part_lower, DictGet(status_mapping, part_lower)))
             ELSE IF Len(part) >= 3 /\ best_matches # <<>>
             THEN ResolveStatusParts(rest, status_mapping,
                      DictSet(parsed_statuses, BestMatch(best_matches).k,
                              BestMatch(best_matches).v))
             ELSE ResolveStatusParts(rest, status_mapping, parsed_statuses)

\* MultiEndpointAgent._parse_dynamic_status_list
_parse_dynamic_status_list(status_text, status_mapping) ==
    ResolveStatusParts(SplitOnAll(<<StrStrip(status_text)>>, StatusSeparators),
                       status_mapping, EmptyDict)

AnyIn(terms, s) == \E term \in terms : StrIn(term, s)

\* r'\b' + r'\s+'.join(re.escape(word) for word in words) + r'\b'
RECURSIVE WordsBetweenSpaces(_)
WordsBetweenSpaces(words) ==
    IF Len(words) = 1 THEN <<ReLit(words[1])>>
    ELSE <<ReLit(words[1]), RePlus(ReSpace)>> \o WordsBetweenSpaces(Tail(words))
WholeWords(words) == ReCat(<<ReWordBoundary>> \o WordsBetweenSpaces(words) \o <<ReWordBoundary>>)
\* r'\b' + re.escape(text) + r'\b'
WholeText(text) == ReCat(<<ReWordBoundary, ReLit(text), ReWordBoundary>>)

\* The best entry of the loop of lines 821-827: the first entry whose score
\* is above the threshold and above the score of every entry before it, and
\* that no later entry beats.
RECURSIVE BestAbove(_, _, _, _)
BestAbove(term, mapping, best, best_score) ==
    IF mapping = <<>> THEN best
    ELSE LET score == _calculate_status_match_score(term, mapping[1].k) IN
         IF score > best_score /\ score > Score_0_5
         THEN BestAbove(term, Tail(mapping), <<mapping[1]>>, score)
         ELSE BestAbove(term, Tail(mapping), best, best_score)

\* The loop over the clauses of _find_multiple_status_clauses (lines 806-835).
RECURSIVE MatchStatusClauses(_, _, _)
MatchStatusClauses(matches, status_mapping, found_statuses) ==
    IF matches = <<>> THEN found_statuses
    ELSE LET status_term == StrStrip(matches[1])
             best == BestAbove(status_term, status_mapping, <<>>, 0)
             matched == IF DictHas(status_mapping, status_term)
                        THEN <<KV(status_term, DictGet(status_mapping, status_term))>>
                        ELSE best
         IN  IF matched # <<>> /\ matched[1].k # <<>> /\ matched[1].v # 0
             THEN MatchStatusClauses(Tail(matches), status_mapping,
                                     DictSet(found_statuses, matched[1].k, matched[1].v))
             ELSE MatchStatusClauses(Tail(matches), status_mapping, found_statuses)

\* MultiEndpointAgent._find_multiple_status_clauses
\*   r'status\s+(?:is|are|equals?)\s+([a-z\s]+?)(?=\s+and\s+|$|\s+or\s+)'
status_clause_pattern ==
    ReCat(<<ReLit(<<"s","t","a","t","u","s">>), RePlus(ReSpace), ReAlt(<<ReLit(<<"i","s">>),
    ReLit(<<"a","r","e">>), ReCat(<<ReLit(<<"e","q","u","a","l">>), ReOpt(ReLit(<<"s">>))>>)>>),
    RePlus(ReSpace), ReGroup(1, ReLazyPlus(ReSet(LowerLetters \cup SpaceChars))),
    ReLookahead(ReAlt(<<ReCat(<<RePlus(ReSpace), ReLit(<<"a","n","d">>), RePlus(ReSpace)>>),
    ReEnd, ReCat(<<RePlus(ReSpace), ReLit(<<"o","r">>), RePlus(ReSpace)>>)>>))>>)
_find_multiple_status_clauses(user_prompt, status_mapping) ==
    MatchStatusClauses(ReFindAll(status_clause_pattern, StrLower(user_prompt)),
                       status_mapping, EmptyDict)

\* Method 1 of _find_all_status_mentions (lines 733-757).
RECURSIVE DirectStatusMentions(_, _, _)
DirectStatusMentions(prompt_lower, mapping, found_statuses) ==
    IF mapping = <<>> THEN found_statuses
    ELSE LET status_name == mapping[1].k
             status_words == StrWords(status_name)
             hit == \/ StrIn(status_name, prompt_lower)
                    \/ /\ Len(status_words) > 1
                       /\ ReSearch(WholeWords(status_words), prompt_lower).found
                    \/ /\ Len(status_words) = 1
                       /\ Len(status_words[1]) > 3
                       /\ ReSearch(WholeText(status_words[1]), prompt_lower).found
         IN  DirectStatusMentions(prompt_lower, Tail(mapping),
                 IF hit THEN DictSet(found_statuses, status_name, mapping[1].v)
                 ELSE found_statuses)

\* status_variations (lines 760-769), in the order of the dict.
status_variations ==
    << KV(<<"o","p","e","n">>, <<<<"o","p","e","n","e","d">>, <<"n","e","w">>, <<"a","c","t","i","v","e">>>>),
       KV(<<"c","l","o","s","e","d">>, <<<<"c","l","o","s","e">>, <<"c","o","m","p","l","e","t","e","d">>, <<"d","o","n","e">>, <<"f","i","n","i","s","h","e","d">>>>),
       KV(<<"p","e","n","d","i","n","g">>, <<<<"w","a","i","t","i","n","g">>, <<"h","o","l","d">>, <<"o","n"," ","h","o","l","d">>>>),
       KV(<<"r","e","s","o","l","v","e","d">>, <<<<"f","i","x","e","d">>, <<"s","o","l","v","e","d">>, <<"c","o","m","p","l","e","t","e">>>>),
       KV(<<"i","n"," ","p","r","o","g","r","e","s","s">>, <<<<"p","r","o","g","r","e","s","s">>, <<"w","o","r","k","i","n","g">>, <<"o","n","g","o","i","n","g">>, <<"p","r","o","c","e","s","s","i","n","g">>>>),
       KV(<<"t","e","s","t","i","n","g">>, <<<<"t","e","s","t">>, <<"q","a">>, <<"v","e","r","i","f","i","c","a","t","i","o","n">>>>),
       KV(<<"c","a","n","c","e","l","l","e","d">>, <<<<"c","a","n","c","e","l","e","d">>, <<"a","b","o","r","t">>, <<"a","b","o","r","t","e","d">>>>),
       KV(<<"r","e","j","e","c","t","e","d">>, <<<<"r","e","j","e","c","t">>, <<"d","e","n","i","e","d">>, <<"d","e","c","l","i","n","e","d">>>>) >>

\* The first key of mapping that holds base or one of the variations.
FirstKeyHolding(mapping, base, variations) ==
    LET holds(i) == StrIn(base, mapping[i].k) \/ AnyIn(SeqRange(variations), mapping[i].k)
    IN  IF \E i \in 1..Len(mapping) : holds(i)
        THEN <<mapping[CHOOSE i \in 1..Len(mapping) :
                          holds(i) /\ \A j \in 1..(i - 1) : ~holds(j)].k>>
        ELSE <<>>

\* Method 2 of _find_all_status_mentions (lines 771-786).
RECURSIVE VariationMentions(_, _, _, _)
VariationMentions(prompt_lower, status_mapping, variations, found_statuses) ==
    IF variations = <<>> THEN found_statuses
    ELSE LET matching_status == FirstKeyHolding(status_mapping, variations[1].k, variations[1].v)
             mentioned == \E i \in 1..Len(variations[1].v) :
                              ReSearch(WholeText(variations[1].v[i]), prompt_lower).found
         IN  VariationMentions(prompt_lower, status_mapping, Tail(variations),
                 IF /\ matching_status # <<>>
                    /\ matching_status[1] # <<>>
                    /\ ~DictHas(found_statuses, matching_status[1])
                    /\ mentioned
                 THEN DictSet(found_statuses, matching_status[1],
                              DictGet(status_mapping, matching_status[1]))
                 ELSE found_statuses)

\* MultiEndpointAgent._find_all_status_mentions
_find_all_status_mentions(user_prompt, status_mapping) ==
    LET prompt_lower == StrLower(user_prompt) IN
    VariationMentions(prompt_lower, status_mapping, status_variations,
                      DirectStatusMentions(prompt_lower, status_mapping, EmptyDict))

\* The entries of mapping whose key holds one of terms, in order.
EntriesHolding(mapping, terms) == SelectSeq(mapping, LAMBDA e : AnyIn(terms, StrLower(e.k)))
EntriesNotHolding(mapping, terms) == SelectSeq(mapping, LAMBDA e : ~AnyIn(terms, StrLower(e.k)))

\* MultiEndpointAgent._detect_implicit_status_patterns
_detect_implicit_status_patterns(user_prompt, status_mapping) ==
    LET prompt_lower == StrLower(user_prompt)
        timed == EntriesHolding(status_mapping, {<<"o","p","e","n">>, <<"n","e","w">>})
        p1 == IF AnyIn({<<"r","e","c","e","n","t">>, <<"n","e","w">>, <<"l","a","t","e","s","t">>, <<"t","o","d","a","y">>, <<"y","e","s","t","e","r","d","a","y">>}, prompt_lower)
                 /\ timed # <<>>
              THEN <<timed[1]>> ELSE EmptyDict
        p2 == IF AnyIn({<<"f","i","x">>, <<"s","o","l","v","e">>, <<"w","o","r","k"," ","o","n">>, <<"a","s","s","i","g","n">>}, prompt_lower)
              THEN DictUpdate(p1, EntriesHolding(status_mapping, {<<"o","p","e","n">>, <<"p","r","o","g","r","e","s","s">>}))
              ELSE p1
        p3 == IF AnyIn({<<"d","o","n","e">>, <<"c","o","m","p","l","e","t","e">>, <<"f","i","n","i","s","h">>, <<"c","l","o","s","e">>}, prompt_lower)
              THEN DictUpdate(p2, EntriesHolding(status_mapping,
                                                 {<<"r","e","s","o","l","v","e","d">>, <<"c","l","o","s","e","d">>, <<"c","o","m","p","l","e","t","e">>}))
              ELSE p2
    IN  IF p3 = EmptyDict /\ ~AnyIn({<<"a","l","l">>, <<"e","v","e","r","y">>, <<"a","n","y">>}, prompt_lower)
        THEN DictUpdate(p3, EntriesHolding(status_mapping, {<<"o","p","e","n">>, <<"p","r","o","g","r","e","s","s">>}))
        ELSE p3

\* status_keywords and other_field_patterns of _is_status_related_query.
status_keywords ==
    << ReCat(<<ReWordBoundary, ReLit(<<"s","t","a","t","u","s">>), RePlus(ReSpace), ReAlt(<<ReLit(<<"i","s">>), ReLit(<<"a","r","e">>), ReLit(<<"i","n">>), ReCat(<<ReLit(<<"e","q","u","a","l">>), ReOpt(ReLit(<<"s">>))>>)>>)>>),
       ReCat(<<ReAlt(<<ReLit(<<"w","i","t","h">>), ReLit(<<"h","a","v","i","n","g">>)>>), RePlus(ReSpace), ReLit(<<"s","t","a","t","u","s">>)>>),
       ReCat(<<ReLit(<<"w","h","e">>), ReAlt(<<ReLit(<<"r","e">>), ReLit(<<"n">>)>>), RePlus(ReSpace), ReLit(<<"s","t","a","t","u","s">>)>>),
       ReCat(<<ReWordBoundary, ReLit(<<"s","t","a","t","u","s">>), ReStar(ReSpace), ReSet({":","="})>>) >>
other_field_patterns ==
    << ReCat(<<ReWordBoundary, ReLit(<<"p","r","i","o","r","i","t","y">>), RePlus(ReSpace), ReAlt(<<ReLit(<<"i","s">>), ReLit(<<"a","r","e">>), ReLit(<<"i","n">>), ReCat(<<ReLit(<<"e","q","u","a","l">>), ReOpt(ReLit(<<"s">>))>>)>>)>>),
       ReCat(<<ReWordBoundary, ReLit(<<"u","r","g","e","n","c","y">>), RePlus(ReSpace), ReAlt(<<ReLit(<<"i","s">>), ReLit(<<"a","r","e">>), ReLit(<<"i","n">>), ReCat(<<ReLit(<<"e","q","u","a","l">>), ReOpt(ReLit(<<"s">>))>>)>>)>>),
       ReCat(<<ReWordBoundary, ReLit(<<"c","a","t","e","g","o","r","y">>), RePlus(ReSpace), ReAlt(<<ReLit(<<"i","s">>), ReLit(<<"a","r","e">>), ReLit(<<"i","n">>), ReCat(<<ReLit(<<"e","q","u","a","l">>), ReOpt(ReLit(<<"s">>))>>)>>)>>),
       ReCat(<<ReWordBoundary, ReLit(<<"a","s","s","i","g","n","e","e">>), RePlus(ReSpace), ReAlt(<<ReLit(<<"i","s">>), ReLit(<<"a","r","e">>), ReLit(<<"i","n">>), ReCat(<<ReLit(<<"e","q","u","a","l">>), ReOpt(ReLit(<<"s">>))>>)>>)>>),
       ReCat(<<ReWordBoundary, ReLit(<<"r","e","q","u","e","s","t","e","r">>), RePlus(ReSpace), ReAlt(<<ReLit(<<"i","s">>), ReLit(<<"a","r","e">>), ReLit(<<"i","n">>), ReCat(<<ReLit(<<"e","q","u","a","l">>), ReOpt(ReLit(<<"s">>))>>)>>)>>) >>

AnySearch(patterns, s) == \E i \in 1..Len(patterns) : ReSearch(patterns[i], s).found

\* MultiEndpointAgent._is_status_related_query
_is_status_related_query(user_prompt) ==
    LET prompt_lower == StrLower(user_prompt) IN
    IF AnySearch(status_keywords, prompt_lower) THEN TRUE
    ELSE IF AnySearch(other_field_patterns, prompt_lower) THEN FALSE
    ELSE TRUE

\* MultiEndpointAgent._prioritize_explicit_status_mentions
_prioritize_explicit_status_mentions(user_prompt, detected_statuses, status_mapping) ==
    LET prompt_lower == StrLower(user_prompt)
        explicit_mentions ==
            SelectSeq(status_mapping,
                      LAMBDA e : Len(ReFindIter(WholeText(e.k), prompt_lower)) > 0)
        prioritized ==
            SelectSeq(explicit_mentions, LAMBDA e : DictHas(detected_statuses, e.k))
    IN  IF explicit_mentions # <<>>
        THEN [i \in 1..Len(prioritized) |->
                 KV(prioritized[i].k, DictGet(detected_statuses, prioritized[i].k))]
        ELSE IF Len(detected_statuses) > 5 THEN SubSeq(detected_statuses, 1, 3)
        ELSE detected_statuses

\* exclusion_patterns and inclusion_patterns of resolve_status_references.
status_exclusion_patterns ==
    << ReCat(<<ReAlt(<<ReLit(<<"n","o","t">>), ReLit(<<"e","x","c","e","p","t">>), ReLit(<<"e","x","c","l","u","d","i","n","g">>), ReLit(<<"w","i","t","h","o","u","t">>)>>), RePlus(ReSpace), ReOpt(ReCat(<<ReLit(<<"s","t","a","t","u","s">>), RePlus(ReSpace)>>)), ReOpt(ReCat(<<ReLit(<<"i","s">>), RePlus(ReSpace)>>)), ReGroup(1, ReLazyPlus(ReSet(LowerLetters \cup SpaceChars \cup {","}))), ReAlt(<<ReSpace, ReEnd>>)>>),
       ReCat(<<ReLit(<<"s","t","a","t","u","s">>), RePlus(ReSpace), ReOpt(ReCat(<<ReLit(<<"i","s">>), RePlus(ReSpace)>>)), ReAlt(<<ReLit(<<"n","o","t">>), ReLit(<<"e","x","c","e","p","t">>), ReLit(<<"e","x","c","l","u","d","i","n","g">>)>>), RePlus(ReSpace), ReGroup(1, ReLazyPlus(ReSet(LowerLetters \cup SpaceChars \cup {","}))), ReAlt(<<ReSpace, ReEnd>>)>>),
       ReCat(<<ReAlt(<<ReLit(<<"a","l","l">>), ReLit(<<"s","h","o","w">>), ReLit(<<"g","e","t">>)>>), RePlus(ReSpace), ReAlt(<<ReCat(<<ReLit(<<"r","e","q","u","e","s","t">>), ReOpt(ReLit(<<"s">>))>>), ReCat(<<ReLit(<<"t","i","c","k","e","t">>), ReOpt(ReLit(<<"s">>))>>)>>), RePlus(ReSpace), ReAlt(<<ReLit(<<"n","o","t">>), ReLit(<<"e","x","c","e","p","t">>), ReLit(<<"e","x","c","l","u","d","i","n","g">>)>>), RePlus(ReSpace), ReGroup(1, ReLazyPlus(ReSet(LowerLetters \cup SpaceChars \cup {","}))), ReAlt(<<ReSpace, ReEnd>>)>>) >>
status_inclusion_patterns ==
    << ReCat(<<ReLit(<<"s","t","a","t","u","s">>), RePlus(ReSpace), ReAlt(<<ReLit(<<"i","s">>), ReLit(<<"a","r","e">>), ReCat(<<ReLit(<<"e","q","u","a","l">>), ReOpt(ReLit(<<"s">>))>>)>>), RePlus(ReSpace), ReGroup(1, ReLazyAtLeast(2, ReSet(LowerLetters \cup SpaceChars))), ReLookahead(ReAlt(<<ReCat(<<RePlus(ReSpace), ReLit(<<"a","n","d">>), RePlus(ReSpace), ReLit(<<"s","t","a","t","u","s">>)>>), ReCat(<<RePlus(ReSpace), ReLit(<<"o","r">>), RePlus(ReSpace), ReLit(<<"s","t","a","t","u","s">>)>>), ReEnd>>))>>),
       ReCat(<<ReLit(<<"s","t","a","t","u","s">>), RePlus(ReSpace), ReAlt(<<ReLit(<<"i","s">>), ReLit(<<"a","r","e">>), ReLit(<<"i","n">>), ReCat(<<ReLit(<<"i","n","c","l","u","d","e">>), ReOpt(ReLit(<<"s">>))>>)>>), RePlus(ReSpace), ReGroup(1, ReLazyAtLeast(3, ReSet(LowerLetters \cup SpaceChars \cup {","}))), ReStar(ReCat(<<RePlus(ReSpace), ReAlt(<<ReLit(<<"a","n","d">>), ReLit(<<"o","r">>)>>), RePlus(ReSpace), ReLazyAtLeast(3, ReSet(LowerLetters \cup SpaceChars \cup {","}))>>))>>),
       ReCat(<<ReAlt(<<ReLit(<<"w","i","t","h">>), ReLit(<<"h","a","v","i","n","g">>)>>), RePlus(ReSpace), ReLit(<<"s","t","a","t","u","s">>), RePlus(ReSpace), ReGroup(1, ReLazyAtLeast(3, ReSet(LowerLetters \cup SpaceChars \cup {","}))), ReStar(ReCat(<<RePlus(ReSpace), ReAlt(<<ReLit(<<"a","n","d">>), ReLit(<<"o","r">>)>>), RePlus(ReSpace), ReLazyAtLeast(3, ReSet(LowerLetters \cup SpaceChars \cup {","}))>>))>>),
       ReCat(<<ReLit(<<"w","h","e">>), ReAlt(<<ReLit(<<"r","e">>), ReLit(<<"n">>)>>), RePlus(ReSpace), ReLit(<<"s","t","a","t","u","s">>), RePlus(ReSpace), ReAlt(<<ReLit(<<"i","s">>), ReLit(<<"a","r","e">>), ReLit(<<"i","n">>)>>), RePlus(ReSpace), ReGroup(1, ReLazyAtLeast(3, ReSet(LowerLetters \cup SpaceChars \cup {","}))), ReStar(ReCat(<<RePlus(ReSpace), ReAlt(<<ReLit(<<"a","n","d">>), ReLit(<<"o","r">>)>>), RePlus(ReSpace), ReLazyAtLeast(3, ReSet(LowerLetters \cup SpaceChars \cup {","}))>>))>>),
       ReCat(<<ReLit(<<"s","t","a","t","u","s">>), RePlus(ReSpace), ReAlt(<<ReLit(<<"i","s">>), ReLit(<<"a","r","e">>), ReLit(<<"i","n">>)>>), RePlus(ReSpace), ReGroup(1, ReCat(<<ReAtLeast(3, ReSet(LowerLetters \cup SpaceChars \cup {","})), ReStar(ReCat(<<ReLit(<<",">>), ReStar(ReSpace), ReAtLeast(2, ReSet(LowerLetters \cup SpaceChars))>>))>>))>>),
       ReCat(<<ReAlt(<<ReCat(<<ReLit(<<"r","e","q","u","e","s","t">>), ReOpt(ReLit(<<"s">>))>>), ReCat(<<ReLit(<<"t","i","c","k","e","t">>), ReOpt(ReLit(<<"s">>))>>)>>), RePlus(ReSpace), ReAlt(<<ReLit(<<"w","i","t","h">>), ReLit(<<"h","a","v","i","n","g">>), ReLit(<<"w","h","e","r","e">>)>>), RePlus(ReSpace), ReLit(<<"s","t","a","t","u","s">>), RePlus(ReSpace), ReGroup(1, ReAtLeast(3, ReSet(LowerLetters \cup SpaceChars \cup {","})))>>) >>

\* for pattern in patterns: for match in re.findall(pattern, text):
\*     acc.update(self._parse_dynamic_status_list(match, status_mapping))
RECURSIVE ParseEachMatch(_, _, _)
ParseEachMatch(matches, status_mapping, acc) ==
    IF matches = <<>> THEN acc
    ELSE ParseEachMatch(Tail(matches), status_mapping,
             DictUpdate(acc, _parse_dynamic_status_list(matches[1], status_mapping)))
RECURSIVE ParseEachPattern(_, _, _, _)
ParseEachPattern(patterns, text, status_mapping, acc) ==
    IF patterns = <<>> THEN acc
    ELSE ParseEachPattern(Tail(patterns), text, status_mapping,
             ParseEachMatch(ReFindAll(patterns[1], text), status_mapping, acc))

\* Step 4 of resolve_status_references (lines 492-511).
StatusBusinessLogic(prompt_lower, status_mapping, included_statuses) ==
    IF ~StrIn(<<"r","e","q","u","e","s","t">>, prompt_lower) THEN included_statuses
    ELSE IF AnyIn({<<"a","c","t","i","v","e">>, <<"w","o","r","k","i","n","g">>}, prompt_lower)
    THEN DictUpdate(included_statuses,
                    EntriesHolding(status_mapping, {<<"o","p","e","n">>, <<"p","r","o","g","r","e","s","s">>}))
    ELSE IF StrIn(<<"u","n","r","e","s","o","l","v","e","d">>, prompt_lower)
    THEN DictUpdate(included_statuses,
                    EntriesNotHolding(status_mapping, {<<"c","l","o","s","e","d">>, <<"r","e","s","o","l","v","e","d">>, <<"c","a","n","c","e","l","l","e","d">>}))
    ELSE IF AnyIn({<<"c","o","m","p","l","e","t","e","d">>, <<"f","i","n","i","s","h","e","d">>}, prompt_lower)
    THEN DictUpdate(included_statuses,
                    EntriesHolding(status_mapping, {<<"r","e","s","o","l","v","e","d">>, <<"c","l","o","s","e","d">>}))
    ELSE included_statuses

StatusResult(included, excluded, operator) ==
    [included |-> included, excluded |-> excluded, operator |-> operator]

\* Step 6 of resolve_status_references (lines 521-534).
ImplicitIfNone(user_prompt, status_mapping, included_statuses) ==
    IF Len(included_statuses) = 0 /\ _is_status_related_query(user_prompt)
    THEN DictUpdate(included_statuses,
                    _detect_implicit_status_patterns(user_prompt, status_mapping))
    ELSE included_statuses

\* Step 8 of resolve_status_references (lines 539-547).
StatusOutcome(final_included_statuses, excluded_statuses) ==
    StatusResult(final_included_statuses, excluded_statuses,
                 IF excluded_statuses # EmptyDict /\ final_included_statuses = EmptyDict
                 THEN "not_in" ELSE "in")

\* MultiEndpointAgent.resolve_status_references, given what
\* _fetch_dynamic_status_mapping returned.
resolve_status_references(user_prompt, status_mapping) ==
    IF status_mapping = EmptyDict THEN StatusResult(EmptyDict, EmptyDict, "in")
    ELSE
    LET prompt_lower == StrLower(user_prompt)
        excluded_statuses ==
            ParseEachPattern(status_exclusion_patterns, prompt_lower, status_mapping, EmptyDict)
        step3_1 == _find_multiple_status_clauses(user_prompt, status_mapping)
        step3_2 == DictUpdate(step3_1, _find_all_status_mentions(user_prompt, status_mapping))
        step4 == StatusBusinessLogic(prompt_lower, status_mapping, step3_2)
        step5 == ParseEachPattern(status_inclusion_patterns, prompt_lower, status_mapping, step4)
        step6 == ImplicitIfNone(user_prompt, status_mapping, step5)
        final_included_statuses ==
            _prioritize_explicit_status_mentions(user_prompt, step6, status_mapping)
    IN  StatusOutcome(final_included_statuses, excluded_statuses)

\* The elements of q at the positions in at, in the order of q.
Pick(q, at) ==
    LET nth(k) == CHOOSE i \in at : Cardinality({j \in at : j < i}) = k - 1
    IN  [k \in 1..Cardinality(at) |-> q[nth(k)]]

\* The separators of _parse_status_list (line 969).
PrioritySeparators == <<<<",">>, <<" ","a","n","d"," ">>, <<" ","o","r"," ">>, <<"&">>, <<"+">>>>

\* The score of lines 996-1003 as a fraction num/den, 0/1 when neither text
\* holds the other.
PartialScore(part, status_name) ==
    IF part = status_name THEN [num |-> 1, den |-> 1]
    ELSE IF StrIn(part, status_name) THEN [num |-> Len(part), den |-> Len(status_name)]
    ELSE IF StrIn(status_name, part) THEN [num |-> Len(status_name), den |-> Len(part)]
    ELSE [num |-> 0, den |-> 1]
ScoreAbove(a, b) == a.num * b.den > b.num * a.den
Score_0_6_fraction == [num |-> 3, den |-> 5]

\* The best match of the loop of lines 990-1006: the first entry whose
\* score is above 0.6 and that no entry beats, none for a part shorter than
\* three characters.
BestPartial(part, mapping) ==
    LET score(i) == PartialScore(part, mapping[i].k)
        good == {i \in 1..Len(mapping) :
                    /\ Len(part) >= 3
                    /\ StrIn(mapping[i].k, part) \/ StrIn(part, mapping[i].k)
                    /\ ScoreAbove(score(i), Score_0_6_fraction)}
        best == {i \in good : /\ \A j \in good : ~ScoreAbove(score(j), score(i))
                              /\ \A j \in good : j < i => ScoreAbove(score(i), score(j))}
    IN  IF best = {} THEN <<>> ELSE <<mapping[Least(best)]>>

\* The loop over the parts of _parse_status_list (lines 978-1015).
RECURSIVE ResolveListParts(_, _, _)
ResolveListParts(parts, mapping, parsed_statuses) ==
    IF parts = <<>> THEN parsed_statuses
    ELSE LET part == StrStrip(StrKeep(parts[1], WordChars \cup SpaceChars))
             best_match == BestPartial(part, mapping)
             rest == Tail(parts)
         IN  IF Len(part) < 2 THEN ResolveListParts(rest, mapping, parsed_statuses)
             ELSE IF DictHas(mapping, part)
             THEN ResolveListParts(rest, mapping,
                                   DictSet(parsed_statuses, part, DictGet(mapping, part)))
             ELSE IF best_match # <<>>
             THEN ResolveListParts(rest, mapping,
                                   DictSet(parsed_statuses, best_match[1].k, best_match[1].v))
             ELSE ResolveListParts(rest, mapping, parsed_statuses)

\* MultiEndpointAgent._parse_status_list
_parse_status_list(status_text, status_mapping) ==
    ResolveListParts(SplitOnAll(<<StrStrip(status_text)>>, PrioritySeparators),
                     status_mapping, EmptyDict)

\* priority_mapping of resolve_priority_references (lines 1023-1032).
priority_mapping ==
    << KV(<<"l","o","w">>, 1), KV(<<"v","e","r","y"," ","l","o","w">>, 1), KV(<<"m","e","d","i","u","m">>, 2), KV(<<"n","o","r","m","a","l">>, 2),
       KV(<<"h","i","g","h">>, 3), KV(<<"u","r","g","e","n","t">>, 4), KV(<<"c","r","i","t","i","c","a","l">>, 4), KV(<<"v","e","r","y"," ","h","i","g","h">>, 4) >>

priority_exclusion_patterns ==
    << ReCat(<<ReAlt(<<ReLit(<<"n","o","t">>), ReLit(<<"e","x","c","e","p","t">>), ReLit(<<"e","x","c","l","u","d","i","n","g">>), ReLit(<<"w","i","t","h","o","u","t">>)>>), RePlus(ReSpace), ReOpt(ReCat(<<ReLit(<<"p","r","i","o","r","i","t","y">>), RePlus(ReSpace)>>)), ReOpt(ReCat(<<ReLit(<<"i","s">>), RePlus(ReSpace)>>)), ReGroup(1, ReLazyPlus(ReSet(LowerLetters \cup SpaceChars \cup {","}))), ReAlt(<<ReSpace, ReEnd>>)>>),
       ReCat(<<ReLit(<<"p","r","i","o","r","i","t","y">>), RePlus(ReSpace), ReOpt(ReCat(<<ReLit(<<"i","s">>), RePlus(ReSpace)>>)), ReAlt(<<ReLit(<<"n","o","t">>), ReLit(<<"e","x","c","e","p","t">>), ReLit(<<"e","x","c","l","u","d","i","n","g">>)>>), RePlus(ReSpace), ReGroup(1, ReLazyPlus(ReSet(LowerLetters \cup SpaceChars \cup {","}))), ReAlt(<<ReSpace, ReEnd>>)>>) >>
priority_inclusion_patterns ==
    << ReCat(<<ReLit(<<"p","r","i","o","r","i","t","y">>), RePlus(ReSpace), ReAlt(<<ReLit(<<"i","s">>), ReLit(<<"a","r","e">>), ReLit(<<"i","n">>), ReCat(<<ReLit(<<"i","n","c","l","u","d","e">>), ReOpt(ReLit(<<"s">>))>>)>>), RePlus(ReSpace), ReGroup(1, ReLazyPlus(ReSet(LowerLetters \cup SpaceChars \cup {","}))), ReStar(ReCat(<<RePlus(ReSpace), ReAlt(<<ReLit(<<"a","n","d">>), ReLit(<<"o","r">>)>>), RePlus(ReSpace), ReNotLookahead(ReLit(<<"p","r","i","o","r","i","t","y">>)), ReLazyPlus(ReSet(LowerLetters \cup SpaceChars \cup {","}))>>))>>),
       ReCat(<<ReLit(<<"p","r","i","o","r","i","t","y">>), RePlus(ReSpace), ReAlt(<<ReLit(<<"i","s">>), ReLit(<<"a","r","e">>), ReCat(<<ReLit(<<"e","q","u","a","l">>), ReOpt(ReLit(<<"s">>))>>)>>), RePlus(ReSpace), ReGroup(1, ReLazyPlus(ReSet(LowerLetters \cup SpaceChars \cup {","}))), ReStar(ReCat(<<RePlus(ReSpace), ReLit(<<"a","n","d">>), RePlus(ReSpace), ReNotLookahead(ReLit(<<"p","r","i","o","r","i","t","y">>)), ReLazyPlus(ReSet(LowerLetters \cup SpaceChars \cup {","}))>>))>>),
       ReCat(<<ReAlt(<<ReLit(<<"w","i","t","h">>), ReLit(<<"h","a","v","i","n","g">>)>>), RePlus(ReSpace), ReLit(<<"p","r","i","o","r","i","t","y">>), RePlus(ReSpace), ReGroup(1, ReLazyPlus(ReSet(LowerLetters \cup SpaceChars \cup {","}))), ReStar(ReCat(<<RePlus(ReSpace), ReAlt(<<ReLit(<<"a","n","d">>), ReLit(<<"o","r">>)>>), RePlus(ReSpace), ReLazyPlus(ReSet(LowerLetters \cup SpaceChars \cup {","}))>>))>>),
       ReCat(<<ReGroup(1, ReAlt(<<ReLit(<<"h","i","g","h">>), ReLit(<<"m","e","d","i","u","m">>), ReLit(<<"l","o","w">>), ReLit(<<"u","r","g","e","n","t">>), ReLit(<<"c","r","i","t","i","c","a","l">>)>>)), RePlus(ReSpace), ReLit(<<"p","r","i","o","r","i","t","y">>)>>),
       ReCat(<<ReLit(<<"p","r","i","o","r","i","t","y">>), RePlus(ReSpace), ReAlt(<<ReLit(<<"i","s">>), ReLit(<<"a","r","e">>), ReCat(<<ReLit(<<"e","q","u","a","l">>), ReOpt(ReLit(<<"s">>))>>)>>), RePlus(ReSpace), ReGroup(1, ReLazyPlus(ReSet(LowerLetters \cup SpaceChars \cup {","}))), ReLookahead(ReAlt(<<ReCat(<<RePlus(ReSpace), ReLit(<<"a","n","d">>), RePlus(ReSpace), ReAlt(<<ReLit(<<"s","t","a","t","u","s">>), ReLit(<<"u","r","g","e","n","c","y">>), ReLit(<<"c","a","t","e","g","o","r","y">>), ReLit(<<"a","s","s","i","g","n","e","e">>), ReLit(<<"r","e","q","u","e","s","t","e","r">>)>>)>>), ReEnd>>))>>) >>

\* for pattern in patterns: for match in re.findall(pattern, text):
\*     acc.update(self._parse_status_list(match, mapping))
RECURSIVE ListEachMatch(_, _, _)
ListEachMatch(matches, mapping, acc) ==
    IF matches = <<>> THEN acc
    ELSE ListEachMatch(Tail(matches), mapping,
                       DictUpdate(acc, _parse_status_list(matches[1], mapping)))
RECURSIVE ListEachPattern(_, _, _, _)
ListEachPattern(patterns, text, mapping, acc) ==
    IF patterns = <<>> THEN acc
    ELSE ListEachPattern(Tail(patterns), text, mapping,
                         ListEachMatch(ReFindAll(patterns[1], text), mapping, acc))

\* MultiEndpointAgent.resolve_priority_references
resolve_priority_references(user_prompt) ==
    LET prompt_lower == StrLower(user_prompt)
        excluded_priorities ==
            ListEachPattern(priority_exclusion_patterns, prompt_lower, priority_mapping, EmptyDict)
        included_priorities ==
            ListEachPattern(priority_inclusion_patterns, prompt_lower, priority_mapping, EmptyDict)
    IN  StatusResult(included_priorities, excluded_priorities,
                     IF excluded_priorities # EmptyDict /\ included_priorities = EmptyDict
                     THEN "not_in" ELSE "in")

\* A leaf of a qualification: the dict of the wire format, with the name of
\* the field that holds the operand, and no right operand for a unary leaf.
NoValue == [type |-> "none", value |-> 0]
Value(type, value) == [type |-> type, value |-> value]
Duration(value, unit) == [type |-> "DurationValueRest", value |-> value, unit |-> unit]
RelationalLeaf(operand_type, key, operator, value) ==
    [type |-> "RelationalQualificationRest", operand_field |-> "leftOperand",
     operand_type |-> operand_type, key |-> key, operator |-> operator,
     has_right |-> TRUE, value |-> value]
UnaryLeaf(operand_type, key, operator) ==
    [type |-> "UnaryQualificationRest", operand_field |-> "operand",
     operand_type |-> operand_type, key |-> key, operator |-> operator,
     has_right |-> FALSE, value |-> NoValue]
ListLongLeaf(key, operator, ids) ==
    RelationalLeaf("PropertyOperandRest", key, operator, Value("ListLongValueRest", ids))
Qualification(quals) == [qualDetails |-> [type |-> "FlatQualificationRest", quals |-> quals]]

\* MultiEndpointAgent._add_multi_value_filter
_add_multi_value_filter(quals, filter_result, field_key) ==
    quals
    \o (IF filter_result.included # EmptyDict
        THEN <<ListLongLeaf(field_key, "in", DictValues(filter_result.included))>> ELSE <<>>)
    \o (IF filter_result.excluded # EmptyDict
        THEN <<ListLongLeaf(field_key, "not_in", DictValues(filter_result.excluded))>> ELSE <<>>)

BooleanLeaf(key) ==
    RelationalLeaf("PropertyOperandRest", key, "equal", Value("BooleanValueRest", TRUE))

\* MultiEndpointAgent._add_business_logic_filters
_add_business_logic_filters(quals, user_prompt) ==
    LET prompt_lower == StrLower(user_prompt) IN
    quals
    \o (IF AnyIn({<<"v","i","p">>, <<"i","m","p","o","r","t","a","n","t">>, <<"c","r","i","t","i","c","a","l"," ","c","u","s","t","o","m","e","r">>}, prompt_lower)
        THEN <<BooleanLeaf("request.vipRequest")>> ELSE <<>>)
    \o (IF AnyIn({<<"e","s","c","a","l","a","t","e","d">>, <<"o","v","e","r","d","u","e">>, <<"s","l","a"," ","v","i","o","l","a","t","i","o","n">>}, prompt_lower)
        THEN <<BooleanLeaf("request.slaViolated")>> ELSE <<>>)
    \o (IF AnyIn({<<"r","e","c","e","n","t">>, <<"t","o","d","a","y">>, <<"t","h","i","s"," ","w","e","e","k">>}, prompt_lower)
        THEN <<RelationalLeaf("VariableOperandRest", "created_date", "within_last",
                   Duration(IF StrIn(<<"t","o","d","a","y">>, prompt_lower) THEN 1
                            ELSE IF StrIn(<<"t","h","i","s"," ","w","e","e","k">>, prompt_lower) THEN 7 ELSE 3,
                            "days"))>>
        ELSE <<>>)

user_patterns ==
    << ReCat(<<ReLit(<<"a","s","s","i","g","n","e","e">>), RePlus(ReSpace), ReAlt(<<ReLit(<<"c","o","n","t","a","i","n","s">>), ReLit(<<"i","n","c","l","u","d","e","s">>), ReLit(<<"i","n">>), ReLit(<<"i","s">>), ReCat(<<ReLit(<<"e","q","u","a","l">>), ReOpt(ReLit(<<"s">>))>>), ReLit(<<"h","a","s">>)>>), RePlus(ReSpace), ReGroup(1, RePlus(ReWord))>>),
       ReCat(<<ReLit(<<"t","e","c","h","n","i","c","i","a","n">>), RePlus(ReSpace), ReAlt(<<ReLit(<<"c","o","n","t","a","i","n","s">>), ReLit(<<"i","n","c","l","u","d","e","s">>), ReLit(<<"i","n">>), ReLit(<<"i","s">>), ReCat(<<ReLit(<<"e","q","u","a","l">>), ReOpt(ReLit(<<"s">>))>>), ReLit(<<"h","a","s">>)>>), RePlus(ReSpace), ReGroup(1, RePlus(ReWord))>>),
       ReCat(<<ReLit(<<"a","s","s","i","g","n","e","d">>), RePlus(ReSpace), ReLit(<<"t","o">>), RePlus(ReSpace), ReGroup(1, RePlus(ReWord))>>),
       ReCat(<<ReLit(<<"u","s","e","r">>), RePlus(ReSpace), ReAlt(<<ReLit(<<"i","s">>), ReLit(<<"n","a","m","e","d">>), ReLit(<<"c","a","l","l","e","d">>)>>), RePlus(ReSpace), ReGroup(1, RePlus(ReWord))>>),
       ReCat(<<ReLit(<<"r","e","q","u","e","s","t","e","r">>), RePlus(ReSpace), ReAlt(<<ReLit(<<"i","s">>), ReLit(<<"n","a","m","e","d">>), ReLit(<<"c","a","l","l","e","d">>)>>), RePlus(ReSpace), ReGroup(1, RePlus(ReWord))>>),
       ReCat(<<ReLit(<<"c","r","e","a","t","e","d","b","y">>), RePlus(ReSpace), ReGroup(1, RePlus(ReWord))>>),
       ReCat(<<ReAlt(<<ReLit(<<"b","y">>), ReLit(<<"f","r","o","m">>)>>), RePlus(ReSpace), ReGroup(1, RePlus(ReWord))>>) >>

\* The body of the loop of resolve_user_references for one match (lines
\* 381-406).
ResolveUser(resolved_users, match, mapping) ==
    LET partial_matches == SelectSeq(mapping, LAMBDA e : StrIn(match, e.k)) IN
    IF match \in {<<"u","n","a","s","s","i","g","n","e","d">>, <<"n","o","n","e">>, <<"n","u","l","l">>, <<"a","u","t","o","m","i","n","d","s">>, <<"a","u","t","o","m","i","n","d">>}
    THEN DictSet(resolved_users, match, 0)
    ELSE IF mapping # EmptyDict /\ DictHas(mapping, match)
    THEN DictSet(resolved_users, match, DictGet(mapping, match))
    ELSE IF mapping # EmptyDict /\ partial_matches # <<>>
    THEN DictSet(resolved_users, match, partial_matches[1].v)
    ELSE resolved_users

\* for pattern in patterns: for match in re.findall(pattern, text): one
\* step of the resolver (the resolvers of users and of urgencies).
RECURSIVE ResolveEachMatch(_, _, _, _)
ResolveEachMatch(matches, mapping, acc, users) ==
    IF matches = <<>> THEN acc
    ELSE ResolveEachMatch(Tail(matches), mapping,
             IF users THEN ResolveUser(acc, matches[1], mapping)
             ELSE IF DictHas(mapping, matches[1])
             THEN DictSet(acc, matches[1], DictGet(mapping, matches[1]))
             ELSE acc,
             users)
RECURSIVE ResolveEachPattern(_, _, _, _, _)
ResolveEachPattern(patterns, text, mapping, acc, users) ==
    IF patterns = <<>> THEN acc
    ELSE ResolveEachPattern(Tail(patterns), text, mapping,
             ResolveEachMatch(ReFindAll(patterns[1], text), mapping, acc, users), users)

\* MultiEndpointAgent.resolve_user_references, given what get_user_mapping
\* returned.
resolve_user_references(user_prompt, mapping) ==
    ResolveEachPattern(user_patterns, StrLower(user_prompt), mapping, EmptyDict, TRUE)

urgency_patterns ==
    << ReCat(<<ReLit(<<"u","r","g","e","n","c","y">>), RePlus(ReSpace), ReAlt(<<ReLit(<<"i","s">>), ReLit(<<"a","s">>), ReCat(<<ReLit(<<"e","q","u","a","l">>), ReOpt(ReLit(<<"s">>))>>)>>), RePlus(ReSpace), ReGroup(1, RePlus(ReWord))>>),
       ReCat(<<ReLit(<<"u","r","g","e","n","c","y">>), RePlus(ReSpace), ReAlt(<<ReLit(<<"c","o","n","t","a","i","n","s">>), ReLit(<<"i","n","c","l","u","d","e","s">>)>>), RePlus(ReSpace), ReGroup(1, RePlus(ReWord))>>),
       ReCat(<<ReGroup(1, RePlus(ReWord)), RePlus(ReSpace), ReLit(<<"u","r","g","e","n","c","y">>)>>),
       ReCat(<<ReLit(<<"p","r","i","o","r","i","t","y">>), RePlus(ReSpace), ReAlt(<<ReLit(<<"i","s">>), ReLit(<<"a","s">>), ReCat(<<ReLit(<<"e","q","u","a","l">>), ReOpt(ReLit(<<"s">>))>>)>>), RePlus(ReSpace), ReGroup(1, RePlus(ReWord))>>) >>

\* MultiEndpointAgent.resolve_urgency_references, given what
\* get_urgency_mapping returned.
resolve_urgency_references(user_prompt, mapping) ==
    ResolveEachPattern(urgency_patterns, StrLower(user_prompt), mapping, EmptyDict, FALSE)

\* field_patterns of extract_text_search (lines 1490-1506), in the order of
\* the dict.
field_patterns ==
    << KV("subject",
          << ReCat(<<ReLit(<<"s","u","b","j","e","c","t">>), RePlus(ReSpace), ReAlt(<<ReLit(<<"c","o","n","t","a","i","n","s">>), ReLit(<<"h","a","s">>), ReLit(<<"i","n","c","l","u","d","e","s">>), ReLit(<<"w","i","t","h">>)>>), RePlus(ReSpace), ReSet({"\"","'"}), ReGroup(1, RePlus(ReNotSet({"\"","'"}))), ReSet({"\"","'"})>>),
             ReCat(<<ReLit(<<"s","u","b","j","e","c","t">>), RePlus(ReSpace), ReAlt(<<ReLit(<<"c","o","n","t","a","i","n","s">>), ReLit(<<"h","a","s">>), ReLit(<<"i","n","c","l","u","d","e","s">>), ReLit(<<"w","i","t","h">>)>>), RePlus(ReSpace), ReGroup(1, RePlus(ReWord))>>),
             ReCat(<<ReLit(<<"s","u","b","j","e","c","t">>), RePlus(ReSpace), ReAlt(<<ReLit(<<"i","s">>), ReCat(<<ReLit(<<"e","q","u","a","l">>), ReOpt(ReLit(<<"s">>))>>)>>), RePlus(ReSpace), ReGroup(1, RePlus(ReWord))>>) >>),
       KV("description",
          << ReCat(<<ReLit(<<"d","e","s","c","r","i","p","t","i","o","n">>), RePlus(ReSpace), ReAlt(<<ReLit(<<"c","o","n","t","a","i","n","s">>), ReLit(<<"h","a","s">>), ReLit(<<"i","n","c","l","u","d","e","s">>), ReLit(<<"w","i","t","h">>)>>), RePlus(ReSpace), ReSet({"\"","'"}), ReGroup(1, RePlus(ReNotSet({"\"","'"}))), ReSet({"\"","'"})>>),
             ReCat(<<ReLit(<<"d","e","s","c","r","i","p","t","i","o","n">>), RePlus(ReSpace), ReAlt(<<ReLit(<<"c","o","n","t","a","i","n","s">>), ReLit(<<"h","a","s">>), ReLit(<<"i","n","c","l","u","d","e","s">>), ReLit(<<"w","i","t","h">>)>>), RePlus(ReSpace), ReGroup(1, RePlus(ReWord))>>),
             ReCat(<<ReLit(<<"d","e","s","c","r","i","p","t","i","o","n">>), RePlus(ReSpace), ReAlt(<<ReLit(<<"i","s">>), ReCat(<<ReLit(<<"e","q","u","a","l">>), ReOpt(ReLit(<<"s">>))>>)>>), RePlus(ReSpace), ReGroup(1, RePlus(ReWord))>>) >>),
       KV("name",
          << ReCat(<<ReAlt(<<ReLit(<<"n","a","m","e">>), ReLit(<<"t","i","t","l","e">>)>>), RePlus(ReSpace), ReAlt(<<ReLit(<<"c","o","n","t","a","i","n","s">>), ReLit(<<"h","a","s">>), ReLit(<<"i","n","c","l","u","d","e","s">>), ReLit(<<"w","i","t","h">>)>>), RePlus(ReSpace), ReSet({"\"","'"}), ReGroup(1, RePlus(ReNotSet({"\"","'"}))), ReSet({"\"","'"})>>),
             ReCat(<<ReAlt(<<ReLit(<<"n","a","m","e">>), ReLit(<<"t","i","t","l","e">>)>>), RePlus(ReSpace), ReAlt(<<ReLit(<<"c","o","n","t","a","i","n","s">>), ReLit(<<"h","a","s">>), ReLit(<<"i","n","c","l","u","d","e","s">>), ReLit(<<"w","i","t","h">>)>>), RePlus(ReSpace), ReGroup(1, RePlus(ReWord))>>),
             ReCat(<<ReAlt(<<ReLit(<<"n","a","m","e">>), ReLit(<<"t","i","t","l","e">>)>>), RePlus(ReSpace), ReAlt(<<ReLit(<<"i","s">>), ReCat(<<ReLit(<<"e","q","u","a","l">>), ReOpt(ReLit(<<"s">>))>>)>>), RePlus(ReSpace), ReGroup(1, RePlus(ReWord))>>) >>) >>
general_patterns ==
    << ReCat(<<ReLit(<<"c","o","n","t","a","i","n","s">>), RePlus(ReSpace), ReSet({"\"","'"}), ReGroup(1, RePlus(ReNotSet({"\"","'"}))), ReSet({"\"","'"})>>),
       ReCat(<<ReLit(<<"c","o","n","t","a","i","n","s">>), RePlus(ReSpace), ReGroup(1, RePlus(ReWord))>>),
       ReCat(<<ReLit(<<"h","a","v","i","n","g">>), RePlus(ReSpace), ReSet({"\"","'"}), ReGroup(1, RePlus(ReNotSet({"\"","'"}))), ReSet({"\"","'"})>>),
       ReCat(<<ReLit(<<"h","a","v","i","n","g">>), RePlus(ReSpace), ReGroup(1, RePlus(ReWord))>>),
       ReCat(<<ReLit(<<"i","n","c","l","u","d","e","s">>), RePlus(ReSpace), ReSet({"\"","'"}), ReGroup(1, RePlus(ReNotSet({"\"","'"}))), ReSet({"\"","'"})>>),
       ReCat(<<ReLit(<<"i","n","c","l","u","d","e","s">>), RePlus(ReSpace), ReGroup(1, RePlus(ReWord))>>) >>
skip_terms ==
    {<<"u","n","a","s","s","i","g","n","e","d">>, <<"a","s","s","i","g","n","e","d">>, <<"t","e","c","h","n","i","c","i","a","n">>, <<"s","t","a","t","u","s">>, <<"p","r","i","o","r","i","t","y">>, <<"u","r","g","e","n","c","y">>}

\* The first of the patterns that text matches, with its first group.
FirstAccepted(searches, accept(_)) ==
    LET hits == {i \in 1..Len(searches) : searches[i].found /\ accept(searches[i].g[1])}
    IN  IF hits = {} THEN <<>> ELSE <<searches[Least(hits)].g[1]>>
FirstSearch(patterns, text, accept(_)) ==
    FirstAccepted([i \in 1..Len(patterns) |-> ReSearch(patterns[i], text)], accept)

\* MultiEndpointAgent.extract_text_search
\* The loop over field_patterns (lines 1508-1516): every field with the
\* first of its patterns that the prompt matches, if any.
FieldHits(prompt_lower) ==
    [i \in 1..Len(field_patterns) |->
        KV(field_patterns[i].k,
           FirstSearch(field_patterns[i].v, prompt_lower, LAMBDA g : TRUE))]
FoundFields(hits) ==
    LET found == Pick(hits, {i \in 1..Len(hits) : hits[i].v # <<>>})
    IN  [i \in 1..Len(found) |-> KV(found[i].k, found[i].v[1])]
\* Lines 1518-1536: the general patterns count only when no field matched.
TextSearchOf(by_field, general) ==
    IF by_field # <<>> THEN by_field
    ELSE IF general # <<>> THEN <<KV("subject", general[1])>>
    ELSE EmptyDict
extract_text_search(user_prompt) ==
    TextSearchOf(FoundFields(FieldHits(StrLower(user_prompt))),
                 FirstSearch(general_patterns, StrLower(user_prompt),
                             LAMBDA g : g \notin skip_terms))

\* list(dict.fromkeys(values)): the first occurrence of every value.
Unique(values) ==
    Pick(values, {i \in 1..Len(values) : \A j \in 1..(i - 1) : values[j] # values[i]})

\* isinstance(value, (int, float)) for an ID of the model.
IsNumber(value) == value # NonNumeric

\* The loop of lines 1214-1217: one value that is no number and the filter
\* has no values left.
AllNumbers(unique_values) ==
    IF \E i \in 1..Len(unique_values) : ~IsNumber(unique_values[i]) THEN <<>>
    ELSE unique_values

\* MultiEndpointAgent._validate_filter_values
_validate_filter_values(filter_values) ==
    IF filter_values = <<>> THEN <<>> ELSE AllNumbers(Unique(filter_values))

\* MultiEndpointAgent._detect_conflicting_filters
_detect_conflicting_filters(quals) ==
    LET status_filters ==
            SelectSeq(quals, LAMBDA q : q.operand_field = "leftOperand"
                                        /\ q.key = "request.statusId")
    IN  /\ \E i \in 1..Len(status_filters) : status_filters[i].operator = "in"
        /\ \E i \in 1..Len(status_filters) : status_filters[i].operator = "not_in"

\* The validation of lines 1388-1408: the lists of IDs lose their
\* duplicates.
Validated(quals) ==
    [i \in 1..Len(quals) |->
        IF quals[i].value.type = "ListLongValueRest"
        THEN [quals[i] EXCEPT !.value.value = _validate_filter_values(@)]
        ELSE quals[i]]

general_query_phrases ==
    { <<"g","e","t"," ","a","l","l"," ","r","e","q","u","e","s","t","s">>, <<"s","h","o","w"," ","a","l","l"," ","r","e","q","u","e","s","t","s">>, <<"l","i","s","t"," ","a","l","l"," ","r","e","q","u","e","s","t","s">>,
      <<"g","e","t"," ","a","l","l"," ","t","h","e"," ","r","e","q","u","e","s","t">>, <<"s","h","o","w"," ","a","l","l"," ","t","h","e"," ","r","e","q","u","e","s","t">>, <<"l","i","s","t"," ","a","l","l"," ","t","h","e"," ","r","e","q","u","e","s","t">>,
      <<"a","l","l"," ","r","e","q","u","e","s","t","s">>, <<"a","l","l"," ","t","h","e"," ","r","e","q","u","e","s","t">> }
default_filter_words ==
    { <<"p","r","i","o","r","i","t","y">>, <<"s","t","a","t","u","s">>, <<"a","s","s","i","g","n","e","e">>, <<"s","u","b","j","e","c","t">>, <<"u","r","g","e","n","t">>, <<"h","i","g","h">>, <<"l","o","w">>,
      <<"o","p","e","n">>, <<"c","l","o","s","e","d">> }
TextLeaf(key, search_term) ==
    RelationalLeaf("PropertyOperandRest", key, "contains", Value("StringValueRest", search_term))
RequestField(field) ==
    CASE field = "subject" -> "request.subject"
      [] field = "description" -> "request.description"
      [] field = "name" -> "request.name"

\* The leaves that build_request_qualification has collected when it comes to
\* the validation (lines 1281-1385), from what the resolvers returned.
AssembledLeaves(user_prompt, user_refs, urgency_refs, status_result, priority_result,
                text_searches) ==
    LET prompt_lower == StrLower(user_prompt)
        q1 == _add_multi_value_filter(<<>>, status_result, "request.statusId")
        q2 == _add_multi_value_filter(q1, priority_result, "request.priorityId")
        q3 == _add_business_logic_filters(q2, user_prompt)
        q4 == q3 \o (IF urgency_refs # EmptyDict
                     THEN <<ListLongLeaf("request.urgencyId", "in", DictValues(urgency_refs))>>
                     ELSE <<>>)
        q5 == q4 \o (IF user_refs # EmptyDict
                     THEN <<ListLongLeaf("request.technicianId", "in", DictValues(user_refs))>>
                     ELSE <<>>)
        q6 == q5 \o [i \in 1..Len(text_searches) |->
                        TextLeaf(RequestField(text_searches[i].k), text_searches[i].v)]
        has_filters == \/ status_result.included # EmptyDict
                       \/ status_result.excluded # EmptyDict
                       \/ priority_result.included # EmptyDict
                       \/ priority_result.excluded # EmptyDict
                       \/ urgency_refs # EmptyDict
                       \/ user_refs # EmptyDict
                       \/ text_searches # EmptyDict
        is_general_query == AnyIn(general_query_phrases, prompt_lower) /\ ~has_filters
        q7 == IF ~is_general_query /\ q6 = <<>> /\ ~has_filters
                 /\ AnyIn(default_filter_words, prompt_lower)
              THEN <<ListLongLeaf("request.statusId", "not_in", <<13>>)>>
              ELSE q6
    IN  q7

\* The assembly of build_request_qualification (lines 1281-1416) from what
\* the resolvers returned.
AssembleRequest(user_prompt, user_refs, urgency_refs, status_result, priority_result,
                text_searches) ==
    Qualification(Validated(AssembledLeaves(user_prompt, user_refs, urgency_refs,
                                            status_result, priority_result, text_searches)))

\* MultiEndpointAgent.build_request_qualification, given what the three
\* fetches of the resolvers returned.
build_request_qualification(user_prompt, users, urgencies, statuses) ==
    AssembleRequest(user_prompt,
                    resolve_user_references(user_prompt, users),
                    resolve_urgency_references(user_prompt, urgencies),
                    resolve_status_references(user_prompt, statuses),
                    resolve_priority_references(user_prompt),
                    extract_text_search(user_prompt))

(***************************************************************************)
(* PART 7 - APIExecutor: the qualification builder of the fallback path.   *)
(***************************************************************************)

\* config.PRIORITY_MAPPING and config.CLOSED_STATUS_ID
PRIORITY_MAPPING == <<KV(<<"l","o","w">>, 1), KV(<<"m","e","d","i","u","m">>, 2), KV(<<"h","i","g","h">>, 3), KV(<<"u","r","g","e","n","t">>, 4)>>
CLOSED_STATUS_ID == 13

\* APIExecutor._get_fallback_status_mapping
_get_fallback_status_mapping ==
    << KV(<<"o","p","e","n">>, 9), KV(<<"i","n"," ","p","r","o","g","r","e","s","s">>, 10), KV(<<"p","e","n","d","i","n","g">>, 11), KV(<<"r","e","s","o","l","v","e","d">>, 12),
       KV(<<"c","l","o","s","e","d">>, 13), KV(<<"t","e","s","t","i","n","g","1">>, 14) >>

\* The values of the entries of mapping whose key occurs in text, in the
\* order of the mapping.
ValuesNamedIn(mapping, text) ==
    DictValues(SelectSeq(mapping, LAMBDA e : StrIn(e.k, text)))

\* APIExecutor.extract_priority_filter
extract_priority_filter(user_prompt) == ValuesNamedIn(PRIORITY_MAPPING, StrLower(user_prompt))

\* list(set(ids)) for the IDs of the model, 9 to 14: CPython keeps small
\* numbers that differ modulo 8 in the order of their remainders, which is
\* the ascending order for these.
RECURSIVE ListOfSet(_)
ListOfSet(ids) ==
    IF ids = {} THEN <<>> ELSE <<Least(ids)>> \o ListOfSet(ids \ {Least(ids)})

\* APIExecutor.extract_status_filter, given what get_status_mapping returned.
extract_status_filter(user_prompt, status_mapping) ==
    IF status_mapping = EmptyDict THEN <<>>
    ELSE ListOfSet(SeqRange(ValuesNamedIn(status_mapping, StrLower(user_prompt))))

\* rf'{field}\s+(?:...)\s+' followed by the rest.
FieldPattern(field, operators, rest) ==
    ReCat(<<ReLit(field), RePlus(ReSpace),
            ReAlt([i \in 1..Len(operators) |-> ReLit(operators[i])]), RePlus(ReSpace), rest>>)
TextOperators == <<<<"c","o","n","t","a","i","n","s">>, <<"h","a","s">>, <<"i","n","c","l","u","d","e","s">>, <<"w","i","t","h">>>>
ContextOperators == <<<<"c","o","n","t","a","i","n","s">>, <<"i","n","c","l","u","d","e","s">>, <<"i","n">>>>
ContextFields ==
    <<<<"a","s","s","i","g","n","e","e">>, <<"t","e","c","h","n","i","c","i","a","n">>, <<"g","r","o","u","p">>, <<"c","a","t","e","g","o","r","y">>, <<"r","e","q","u","e","s","t","e","r">>, <<"i","m","p","a","c","t">>,
      <<"u","r","g","e","n","c","y">>>>

\* One field of APIExecutor.extract_text_search: the quoted pattern, or else
\* the pattern without quotes when the field and an operator occur.
FieldSearchOf(quoted_match, unquoted_match, names, prompt_lower) ==
    IF quoted_match.found THEN <<quoted_match.g[1]>>
    ELSE IF /\ AnyIn(names, prompt_lower)
            /\ AnyIn(SeqRange(TextOperators), prompt_lower)
            /\ unquoted_match.found
    THEN <<unquoted_match.g[1]>>
    ELSE <<>>
FieldSearch(quoted, unquoted, names, prompt_lower) ==
    FieldSearchOf(ReSearch(quoted, prompt_lower), ReSearch(unquoted, prompt_lower),
                  names, prompt_lower)

\* The text_searches dict of APIExecutor.extract_text_search after its
\* three field searches.
FieldSearches(subject, description, name) ==
    (IF subject # <<>> THEN <<KV("subject", subject[1])>> ELSE <<>>)
    \o (IF description # <<>> THEN <<KV("description", description[1])>> ELSE <<>>)
    \o (IF name # <<>> THEN <<KV("name", name[1])>> ELSE <<>>)

\* is_field_context of APIExecutor.extract_text_search: the term is the
\* value of one of the other fields.
is_field_context(search_term, prompt_lower) ==
    \E i \in 1..Len(ContextFields) :
        ReSearch(FieldPattern(ContextFields[i], ContextOperators, ReLit(search_term)),
                 prompt_lower).found

\* APIExecutor.extract_text_search
APIExecutor_extract_text_search(user_prompt) ==
    LET prompt_lower == StrLower(user_prompt)
        subject == FieldSearch(
            ReCat(<<ReLit(<<"s","u","b","j","e","c","t">>), RePlus(ReSpace), ReAlt(<<ReLit(<<"c","o","n","t","a","i","n","s">>), ReLit(<<"h","a","s">>), ReLit(<<"i","n","c","l","u","d","e","s">>), ReLit(<<"w","i","t","h">>)>>), RePlus(ReSpace), ReSet({"\"","'"}), ReGroup(1, RePlus(ReNotSet({"\"","'"}))), ReSet({"\"","'"})>>),
            ReCat(<<ReLit(<<"s","u","b","j","e","c","t">>), RePlus(ReSpace), ReAlt(<<ReLit(<<"c","o","n","t","a","i","n","s">>), ReLit(<<"h","a","s">>), ReLit(<<"i","n","c","l","u","d","e","s">>), ReLit(<<"w","i","t","h">>)>>), RePlus(ReSpace), ReGroup(1, RePlus(ReWord))>>),
            {<<"s","u","b","j","e","c","t">>}, prompt_lower)
        description == FieldSearch(
            ReCat(<<ReLit(<<"d","e","s","c","r","i","p","t","i","o","n">>), RePlus(ReSpace), ReAlt(<<ReLit(<<"c","o","n","t","a","i","n","s">>), ReLit(<<"h","a","s">>), ReLit(<<"i","n","c","l","u","d","e","s">>), ReLit(<<"w","i","t","h">>)>>), RePlus(ReSpace), ReSet({"\"","'"}), ReGroup(1, RePlus(ReNotSet({"\"","'"}))), ReSet({"\"","'"})>>),
            ReCat(<<ReLit(<<"d","e","s","c","r","i","p","t","i","o","n">>), RePlus(ReSpace), ReAlt(<<ReLit(<<"c","o","n","t","a","i","n","s">>), ReLit(<<"h","a","s">>), ReLit(<<"i","n","c","l","u","d","e","s">>), ReLit(<<"w","i","t","h">>)>>), RePlus(ReSpace), ReGroup(1, RePlus(ReWord))>>),
            {<<"d","e","s","c","r","i","p","t","i","o","n">>}, prompt_lower)
        name == FieldSearch(
            ReCat(<<ReAlt(<<ReLit(<<"n","a","m","e">>), ReLit(<<"t","i","t","l","e">>)>>), RePlus(ReSpace), ReAlt(<<ReLit(<<"c","o","n","t","a","i","n","s">>), ReLit(<<"h","a","s">>), ReLit(<<"i","n","c","l","u","d","e","s">>), ReLit(<<"w","i","t","h">>)>>), RePlus(ReSpace), ReSet({"\"","'"}), ReGroup(1, RePlus(ReNotSet({"\"","'"}))), ReSet({"\"","'"})>>),
            ReCat(<<ReAlt(<<ReLit(<<"n","a","m","e">>), ReLit(<<"t","i","t","l","e">>)>>), RePlus(ReSpace), ReAlt(<<ReLit(<<"c","o","n","t","a","i","n","s">>), ReLit(<<"h","a","s">>), ReLit(<<"i","n","c","l","u","d","e","s">>), ReLit(<<"w","i","t","h">>)>>), RePlus(ReSpace), ReGroup(1, RePlus(ReWord))>>),
            {<<"n","a","m","e">>, <<"t","i","t","l","e">>}, prompt_lower)
        general == FirstSearch(
            << ReCat(<<ReLit(<<"c","o","n","t","a","i","n","s">>), RePlus(ReSpace), ReGroup(1, RePlus(ReWord))>>), ReCat(<<ReLit(<<"h","a","v","i","n","g">>), RePlus(ReSpace), ReGroup(1, RePlus(ReWord))>>), ReCat(<<ReLit(<<"i","n","c","l","u","d","e","s">>), RePlus(ReSpace), ReGroup(1, RePlus(ReWord))>>) >>,
            prompt_lower,
            LAMBDA g : /\ g \notin {<<"u","n","a","s","s","i","g","n","e","d">>, <<"a","s","s","i","g","n","e","d">>, <<"t","e","c","h","n","i","c","i","a","n">>, <<"s","t","a","t","u","s">>,
                                    <<"p","r","i","o","r","i","t","y">>}
                       /\ ~is_field_context(g, prompt_lower))
    IN  TextSearchOf(FieldSearches(subject, description, name), general)

\* int(text) of Python for a text of word characters: digits, which single
\* underscores may separate.
IsPyInt(text) ==
    /\ text # <<>>
    /\ \A i \in 1..Len(text) : text[i] \in DigitChars \cup {"_"}
    /\ text[1] # "_" /\ text[Len(text)] # "_"
    /\ \A i \in 1..(Len(text) - 1) : ~(text[i] = "_" /\ text[i + 1] = "_")
DigitValue(ch) ==
    CASE ch = "0" -> 0 [] ch = "1" -> 1 [] ch = "2" -> 2 [] ch = "3" -> 3 [] ch = "4" -> 4
      [] ch = "5" -> 5 [] ch = "6" -> 6 [] ch = "7" -> 7 [] ch = "8" -> 8 [] ch = "9" -> 9
RECURSIVE DigitsValue(_, _)
DigitsValue(digits, acc) ==
    IF digits = <<>> THEN acc ELSE DigitsValue(Tail(digits), acc * 10 + DigitValue(digits[1]))
PyInt(text) == DigitsValue(StrKeep(text, DigitChars), 0)

\* A leaf on request.createdTime. strftime('%Y-%m-%dT00:00:00Z') keeps the
\* calendar day of the moment and nothing else: the value is the number of
\* that day.
DateLeaf(day) ==
    RelationalLeaf("PropertyOperandRest", "request.createdTime", "GreaterThanOrEqual",
                   Value("TimeValueRest", day))

\* APIExecutor.extract_date_filters; today is the day of datetime.now().
DateLeaves(prompt_lower, days_match, today) ==
        (IF StrIn(<<"t","o","d","a","y">>, prompt_lower) THEN <<DateLeaf(today)>>
         ELSE IF StrIn(<<"y","e","s","t","e","r","d","a","y">>, prompt_lower) THEN <<DateLeaf(today - 1)>>
         ELSE IF StrIn(<<"l","a","s","t"," ","w","e","e","k">>, prompt_lower) \/ StrIn(<<"p","a","s","t"," ","w","e","e","k">>, prompt_lower)
         THEN <<DateLeaf(today - 7)>>
         ELSE IF StrIn(<<"l","a","s","t"," ","m","o","n","t","h">>, prompt_lower) \/ StrIn(<<"p","a","s","t"," ","m","o","n","t","h">>, prompt_lower)
         THEN <<DateLeaf(today - 30)>>
         ELSE <<>>)
        \o (IF days_match.found THEN <<DateLeaf(today - PyInt(days_match.g[1]))>> ELSE <<>>)
extract_date_filters(user_prompt, today) ==
    DateLeaves(StrLower(user_prompt),
               ReSearch(ReCat(<<ReLit(<<"l","a","s","t">>), RePlus(ReSpace), ReGroup(1, RePlus(ReDigit)), RePlus(ReSpace), ReLit(<<"d","a","y">>), ReOpt(ReLit(<<"s">>))>>), StrLower(user_prompt)), today)

assignee_value_patterns ==
    << ReCat(<<ReLit(<<"a","s","s","i","g","n","e","e">>), RePlus(ReSpace), ReAlt(<<ReLit(<<"c","o","n","t","a","i","n","s">>), ReLit(<<"i","n","c","l","u","d","e","s">>), ReLit(<<"i","n">>)>>), RePlus(ReSpace), ReGroup(1, RePlus(ReWord))>>),
       ReCat(<<ReLit(<<"t","e","c","h","n","i","c","i","a","n">>), RePlus(ReSpace), ReAlt(<<ReLit(<<"c","o","n","t","a","i","n","s">>), ReLit(<<"i","n","c","l","u","d","e","s">>), ReLit(<<"i","n">>)>>), RePlus(ReSpace), ReGroup(1, RePlus(ReWord))>>),
       ReCat(<<ReLit(<<"a","s","s","i","g","n","e","d">>), RePlus(ReSpace), ReLit(<<"t","o">>), RePlus(ReSpace), ReGroup(1, RePlus(ReWord))>>),
       ReCat(<<ReLit(<<"a","s","s","i","g","n","e","e">>), RePlus(ReSpace), ReAlt(<<ReLit(<<"i","s">>), ReLit(<<"=">>), ReCat(<<ReLit(<<"e","q","u","a","l">>), ReOpt(ReLit(<<"s">>))>>)>>), RePlus(ReSpace), ReGroup(1, RePlus(ReWord))>>) >>
assignee_mapping ==
    << KV(<<"u","n","a","s","s","i","g","n","e","d">>, 0), KV(<<"n","o","n","e">>, 0), KV(<<"n","u","l","l">>, 0), KV(<<"0">>, 0), KV(<<"1">>, 1),
       KV(<<"2">>, 2), KV(<<"3">>, 3), KV(<<"4">>, 4), KV(<<"5">>, 5) >>
simple_unassigned_patterns ==
    { <<"g","e","t"," ","a","l","l"," ","u","n","a","s","s","i","g","n","e","d">>, <<"s","h","o","w"," ","u","n","a","s","s","i","g","n","e","d">>, <<"f","i","n","d"," ","u","n","a","s","s","i","g","n","e","d">>, <<"n","o","t"," ","a","s","s","i","g","n","e","d">>,
      <<"n","o"," ","t","e","c","h","n","i","c","i","a","n">>, <<"w","i","t","h","o","u","t"," ","t","e","c","h","n","i","c","i","a","n">> }

\* The leaf of extract_assignment_filters for the value that a pattern
\* captured (lines 637-700).
AssigneeLeaf(assignee_value, users) ==
    LET matching_users == SelectSeq(users, LAMBDA e : StrIn(assignee_value, e.k))
        technician(assignee_id) ==
            ListLongLeaf("request.technicianId", "in", <<assignee_id>>)
    IN  IF DictHas(assignee_mapping, assignee_value)
        THEN technician(DictGet(assignee_mapping, assignee_value))
        ELSE IF IsPyInt(assignee_value) THEN technician(PyInt(assignee_value))
        ELSE IF DictHas(users, assignee_value) THEN technician(DictGet(users, assignee_value))
        ELSE IF matching_users # <<>> THEN technician(matching_users[1].v)
        ELSE RelationalLeaf("PropertyOperandRest", "request.requesterName", "contains",
                            Value("StringValueRest", assignee_value))

\* APIExecutor.extract_assignment_filters, given what get_user_mapping
\* returns.
AssignmentLeaves(match, prompt_lower, users) ==
    IF match # <<>> THEN <<AssigneeLeaf(match[1], users)>>
    ELSE IF AnyIn(simple_unassigned_patterns, prompt_lower)
    THEN <<UnaryLeaf("PropertyOperandRest", "request.technicianId", "is_null")>>
    ELSE IF /\ AnyIn({<<"h","a","s"," ","t","e","c","h","n","i","c","i","a","n">>, <<"w","i","t","h"," ","t","e","c","h","n","i","c","i","a","n">>}, prompt_lower)
            /\ ~StrIn(<<"c","o","n","t","a","i","n","s">>, prompt_lower)
            /\ ~StrIn(<<"i","n","c","l","u","d","e","s">>, prompt_lower)
    THEN <<UnaryLeaf("PropertyOperandRest", "request.technicianId", "is_not_null")>>
    ELSE <<>>
extract_assignment_filters(user_prompt, users) ==
    AssignmentLeaves(FirstSearch(assignee_value_patterns, StrLower(user_prompt),
                                 LAMBDA g : TRUE),
                     StrLower(user_prompt), users)

\* APIExecutor.extract_tag_filters
TagLeaves(tag_matches, tag_contains_match) ==
    (IF tag_matches # <<>>
     THEN <<RelationalLeaf("PropertyOperandRest", "request.tags", "All_Members_Exist",
                           Value("ListStringValueRest", tag_matches))>>
     ELSE <<>>)
    \o (IF tag_contains_match.found
        THEN <<RelationalLeaf("PropertyOperandRest", "request.tags", "Contains",
                              Value("StringValueRest", tag_contains_match.g[1]))>>
        ELSE <<>>)
extract_tag_filters(user_prompt) ==
    TagLeaves(
        ReFindAll(ReCat(<<ReAlt(<<ReCat(<<ReLit(<<"t","a","g","g","e">>), ReOpt(ReLit(<<"d">>)), RePlus(ReSpace), ReLit(<<"w","i","t","h">>)>>), ReCat(<<ReLit(<<"h","a","s">>), RePlus(ReSpace), ReLit(<<"t","a","g">>), ReOpt(ReLit(<<"s">>))>>), ReCat(<<ReLit(<<"w","i","t","h">>), RePlus(ReSpace), ReLit(<<"t","a","g">>), ReOpt(ReLit(<<"s">>))>>)>>), RePlus(ReSpace), ReSet({"\"","'"}), ReGroup(1, RePlus(ReNotSet({"\"","'"}))), ReSet({"\"","'"})>>),
                  StrLower(user_prompt)),
        ReSearch(ReCat(<<ReLit(<<"t","a","g">>), ReOpt(ReLit(<<"s">>)), RePlus(ReSpace), ReAlt(<<ReCat(<<ReLit(<<"c","o","n","t","a","i","n">>), ReOpt(ReLit(<<"s">>))>>), ReCat(<<ReLit(<<"i","n","c","l","u","d","e">>), ReOpt(ReLit(<<"s">>))>>)>>), RePlus(ReSpace), ReSet({"\"","'"}), ReGroup(1, RePlus(ReNotSet({"\"","'"}))), ReSet({"\"","'"})>>),
                 StrLower(user_prompt)))

\* field_mapping of extract_general_field_filters, in the order of the dict.
field_mapping ==
    << KV(<<"a","s","s","i","g","n","e","e">>, "request.technicianId"), KV(<<"t","e","c","h","n","i","c","i","a","n">>, "request.technicianId"),
       KV(<<"r","e","q","u","e","s","t","e","r">>, "request.requesterId"), KV(<<"g","r","o","u","p">>, "request.groupId"),
       KV(<<"c","a","t","e","g","o","r","y">>, "request.categoryId"), KV(<<"i","m","p","a","c","t">>, "request.impactId"),
       KV(<<"u","r","g","e","n","c","y">>, "request.urgencyId"), KV(<<"l","o","c","a","t","i","o","n">>, "request.locationId"),
       KV(<<"d","e","p","a","r","t","m","e","n","t">>, "request.departmentId") >>

\* The two patterns that extract_general_field_filters builds for a field.
GeneralFieldPatterns(field_name) ==
    << FieldPattern(field_name, ContextOperators, ReGroup(1, RePlus(ReWord))),
       ReCat(<<ReLit(field_name), RePlus(ReSpace),
               ReAlt(<<ReLit(<<"i","s">>), ReLit(<<"=">>), ReCat(<<ReLit(<<"e","q","u","a","l">>), ReOpt(ReLit(<<"s">>))>>)>>), RePlus(ReSpace), ReGroup(1, RePlus(ReWord))>>) >>

\* APIExecutor.extract_general_field_filters: one leaf for the first pattern
\* of a field that matches; the matches of assignee and technician are
\* skipped.
GeneralFieldHits(prompt_lower) ==
    [i \in 1..Len(field_mapping) |->
        KV(field_mapping[i].v,
           IF field_mapping[i].k \in {<<"a","s","s","i","g","n","e","e">>, <<"t","e","c","h","n","i","c","i","a","n">>} THEN <<>>
           ELSE FirstSearch(GeneralFieldPatterns(field_mapping[i].k), prompt_lower,
                            LAMBDA g : TRUE))]
GeneralFieldLeaf(api_field, field_value) ==
    IF IsPyInt(field_value) THEN ListLongLeaf(api_field, "in", <<PyInt(field_value)>>)
    ELSE RelationalLeaf("PropertyOperandRest", api_field, "contains",
                        Value("StringValueRest", field_value))
GeneralFieldLeaves(hits) ==
    LET found == Pick(hits, {i \in 1..Len(hits) : hits[i].v # <<>>})
    IN  [i \in 1..Len(found) |-> GeneralFieldLeaf(found[i].k, found[i].v[1])]
extract_general_field_filters(user_prompt) ==
    GeneralFieldLeaves(GeneralFieldHits(StrLower(user_prompt)))

\* The assembly of build_advanced_qualification (lines 979-1083) from what
\* the extractors returned.
AssembleAdvanced(priority_ids, status_ids, text_search, date_filters, assignment_filters,
                 tag_filters, general_field_filters) ==
    LET has_other_filters ==
            \/ priority_ids # <<>> \/ text_search # EmptyDict \/ date_filters # <<>>
            \/ assignment_filters # <<>> \/ tag_filters # <<>> \/ general_field_filters # <<>>
    IN  Qualification(
            (IF status_ids # <<>> THEN <<ListLongLeaf("request.statusId", "in", status_ids)>>
             ELSE IF ~has_other_filters
             THEN <<ListLongLeaf("request.statusId", "not_in", <<CLOSED_STATUS_ID>>)>>
             ELSE <<>>)
            \o (IF priority_ids # <<>>
                THEN <<ListLongLeaf("request.priorityId", "in", priority_ids)>> ELSE <<>>)
            \o [i \in 1..Len(text_search) |->
                   TextLeaf(RequestField(text_search[i].k), text_search[i].v)]
            \o date_filters \o assignment_filters \o tag_filters \o general_field_filters)

\* APIExecutor.build_advanced_qualification, given what get_status_mapping
\* and get_user_mapping return and the day of datetime.now().
build_advanced_qualification(user_prompt, status_mapping, users, today) ==
    AssembleAdvanced(extract_priority_filter(user_prompt),
                     extract_status_filter(user_prompt, status_mapping),
                     APIExecutor_extract_text_search(user_prompt),
                     extract_date_filters(user_prompt, today),
                     extract_assignment_filters(user_prompt, users),
                     extract_tag_filters(user_prompt),
                     extract_general_field_filters(user_prompt))

(***************************************************************************)
(* PART 8 - one compilation: the status fetch, the endpoint and the        *)
(* qualification of execute_query.                                         *)
(***************************************************************************)

\* The dict {} that a builder returns in place of a qualification: it has
\* no qualDetails.
NoQualDetails == [type |-> "absent", quals |-> <<>>]
NoQualification == [qualDetails |-> NoQualDetails]

\* A status of the status API, and a response of that API: status 0 is a
\* network failure, parses says whether response.json() succeeds, shape is
\* the form of the body ("list", a dict with "objectList", "content" or
\* "data", "single" for one status, "other" for another dict, "scalar").
StatusItem(id, name, systemName) == [id |-> id, name |-> name, systemName |-> systemName]
StatusResponse(status, parses, shape, items) ==
    [status |-> status, parses |-> parses, shape |-> shape, items |-> items]

\* status_mapping[status['name'].lower().strip()] = status['id'] for every
\* status (lines 617-621).
RECURSIVE NamedStatuses(_, _)
NamedStatuses(statuses, status_mapping) ==
    IF statuses = <<>> THEN status_mapping
    ELSE NamedStatuses(Tail(statuses),
             DictSet(status_mapping, StrStrip(StrLower(statuses[1].name)), statuses[1].id))

\* MultiEndpointAgent._fetch_dynamic_status_mapping, given the response of
\* the status API.
_fetch_dynamic_status_mapping(response) ==
    IF response.status # 200 \/ ~response.parses \/ response.shape = "scalar" THEN EmptyDict
    ELSE IF response.shape = "other" THEN EmptyDict
    ELSE NamedStatuses(response.items, EmptyDict)

\* The loop of APIExecutor.get_status_mapping (lines 163-176).
RECURSIVE BuildStatusMapping(_, _)
BuildStatusMapping(statuses, status_mapping) ==
    IF statuses = <<>> THEN status_mapping
    ELSE LET status_name == StrLower(statuses[1].name)
             status_id == statuses[1].id
             system_name == StrLower(statuses[1].systemName)
             named == DictSet(status_mapping, status_name, status_id)
         IN  BuildStatusMapping(Tail(statuses),
                 IF status_name # <<>> /\ status_id # 0
                 THEN IF system_name # <<>> /\ system_name # status_name
                      THEN DictSet(named, system_name, status_id) ELSE named
                 ELSE status_mapping)

\* APIExecutor.get_status_mapping: what the call returns, and the mapping
\* and the flag that it leaves in the executor.
get_status_mapping(loaded, mapping, auth_token, response) ==
    LET fallback == [result |-> _get_fallback_status_mapping,
                     status_mapping |-> _get_fallback_status_mapping, loaded |-> TRUE]
        built == BuildStatusMapping(
                     IF response.shape \in {"list", "objectList", "content"}
                     THEN response.items ELSE <<StatusItem(0, <<>>, <<>>)>>,
                     EmptyDict)
    IN  IF loaded THEN [result |-> mapping, status_mapping |-> mapping, loaded |-> TRUE]
        ELSE IF ~auth_token THEN fallback
        ELSE IF response.status # 200 \/ ~response.parses \/ response.shape = "scalar"
        THEN fallback
        ELSE [result |-> built, status_mapping |-> built, loaded |-> TRUE]

request_keywords ==
    << <<"r","e","q","u","e","s","t">>, <<"t","i","c","k","e","t">>, <<"i","n","c","i","d","e","n","t">>, <<"i","s","s","u","e">>, <<"p","r","o","b","l","e","m">>, <<"t","a","s","k">>, <<"a","s","s","i","g","n","e","d">>,
       <<"a","s","s","i","g","n","e","e">>, <<"t","e","c","h","n","i","c","i","a","n">>, <<"s","t","a","t","u","s">>, <<"p","r","i","o","r","i","t","y">>, <<"c","r","e","a","t","e","d">>, <<"u","p","d","a","t","e","d">>,
       <<"s","u","b","j","e","c","t">>, <<"d","e","s","c","r","i","p","t","i","o","n">> >>
catalog_keywords ==
    << <<"s","e","r","v","i","c","e"," ","c","a","t","a","l","o","g">>, <<"c","a","t","a","l","o","g">>, <<"s","e","r","v","i","c","e">>, <<"t","e","m","p","l","a","t","e">>, <<"o","n","-","b","o","a","r","d","i","n","g">>,
       <<"o","f","f","-","b","o","a","r","d","i","n","g">>, <<"l","a","p","t","o","p">>, <<"e","m","p","l","o","y","e","e">> >>
user_keywords ==
    << <<"u","s","e","r">>, <<"t","e","c","h","n","i","c","i","a","n">>, <<"e","m","p","l","o","y","e","e">>, <<"s","t","a","f","f">>, <<"p","e","r","s","o","n">>, <<"w","h","o"," ","i","s">>,
       <<"u","s","e","r"," ","d","e","t","a","i","l","s">>, <<"t","e","c","h","n","i","c","i","a","n"," ","d","e","t","a","i","l","s">> >>
urgency_keywords == << <<"u","r","g","e","n","c","y">>, <<"u","r","g","e","n","t">>, <<"u","r","g","e","n","c","y"," ","l","e","v","e","l">>, <<"u","r","g","e","n","c","y"," ","m","a","p","p","i","n","g">> >>

\* sum(1 for keyword in keywords if keyword in prompt_lower)
KeywordScore(keywords, prompt_lower) ==
    Cardinality({i \in 1..Len(keywords) : StrIn(keywords[i], prompt_lower)})

\* MultiEndpointAgent.detect_endpoint_from_prompt: max() keeps the first of
\* the endpoints that have the highest score.
detect_endpoint_from_prompt(user_prompt) ==
    LET prompt_lower == StrLower(user_prompt)
        scores == << KV("requests", KeywordScore(request_keywords, prompt_lower)),
                     KV("service_catalog", KeywordScore(catalog_keywords, prompt_lower)),
                     KV("users", KeywordScore(user_keywords, prompt_lower)),
                     KV("urgency", KeywordScore(urgency_keywords, prompt_lower)) >>
        detected_endpoint ==
            Least({i \in 1..4 : \A j \in 1..4 : scores[j].v <= scores[i].v})
    IN  IF scores[detected_endpoint].v = 0 THEN "requests" ELSE scores[detected_endpoint].k

\* re.findall(re, s) for an expression without a group: the text matched.
MatchedTexts(s, ms) == [k \in 1..Len(ms) |-> SubSeq(s, ms[k].b, ms[k].e - 1)]
ReFindAllText(re, s) == MatchedTexts(s, ReFindIter(re, s))

CatalogField(field) ==
    CASE field = "subject" -> "serviceCatalog.name"
      [] field = "description" -> "serviceCatalog.description"
      [] field = "name" -> "serviceCatalog.name"

\* The leaves of build_service_catalog_qualification (lines 1423-1473).
CatalogLeaves(text_searches, named, catalog_mapping) ==
    [i \in 1..Len(text_searches) |->
        TextLeaf(CatalogField(text_searches[i].k), text_searches[i].v)]
    \o [i \in 1..Len(named) |->
           ListLongLeaf("serviceCatalog.id", "in", <<DictGet(catalog_mapping, named[i])>>)]

\* if quals: return {"qualDetails": ...}; return None
QualificationOf(quals) == IF quals # <<>> THEN Qualification(quals) ELSE NoQualification

\* MultiEndpointAgent.build_service_catalog_qualification, given what
\* get_service_catalog_mapping returned.
build_service_catalog_qualification(user_prompt, catalog_mapping) ==
    LET text_searches == extract_text_search(user_prompt)
        prompt_lower == StrLower(user_prompt)
        matches ==
            ReFindAll(ReCat(<<ReAlt(<<ReLit(<<"s","e","r","v","i","c","e">>), ReLit(<<"c","a","t","a","l","o","g">>)>>), RePlus(ReSpace), ReAlt(<<ReLit(<<"n","a","m","e","d">>), ReLit(<<"c","a","l","l","e","d">>), ReLit(<<"i","s">>)>>), RePlus(ReSpace), ReGroup(1, RePlus(ReWord))>>), prompt_lower)
            \o ReFindAllText(ReAlt(<<ReLit(<<"o","n","-","b","o","a","r","d","i","n","g">>), ReLit(<<"o","f","f","-","b","o","a","r","d","i","n","g">>), ReLit(<<"l","a","p","t","o","p">>)>>), prompt_lower)
            \o ReFindAllText(ReCat(<<ReLit(<<"e","m","p","l","o","y","e","e">>), RePlus(ReSpace), ReLit(<<"o">>), ReAlt(<<ReLit(<<"n","-","b","o","a","r","d","i","n","g">>), ReLit(<<"f","f","-","b","o","a","r","d","i","n","g">>)>>)>>), prompt_lower)
        named == SelectSeq(matches, LAMBDA match : DictHas(catalog_mapping, match))
    IN  QualificationOf(CatalogLeaves(text_searches, named, catalog_mapping))

\* MultiEndpointAgent.build_qualification_for_endpoint, given the
\* qualifications that the two builders return.
build_qualification_for_endpoint(endpoint, request_qualification, catalog_qualification) ==
    IF endpoint = "requests" THEN request_qualification
    ELSE IF endpoint = "service_catalog" THEN catalog_qualification
    ELSE NoQualification

(***************************************************************************)
(* The prompts of the model, the reference data that the compilers can    *)
(* meet, and what each step of a compilation makes of them.                *)
(***************************************************************************)
Prompts ==
    << <<"G","e","t"," ","a","l","l"," ","r","e","q","u","e","s","t","s">>,
       <<"s","h","o","w"," ","a","l","l"," ","r","e","q","u","e","s","t","s"," ","b","y"," ","p","r","i","o","r","i","t","y">>,
       <<"l","i","s","t"," ","p","r","i","o","r","i","t","y"," ","t","i","c","k","e","t","s">>,
       <<"r","e","q","u","e","s","t","s"," ","e","x","c","e","p","t"," ","c","l","o","s","e","d">>,
       <<"r","e","q","u","e","s","t","s"," ","w","i","t","h"," ","s","t","a","t","u","s"," ","c","l","o","s","e","d">>,
       <<"p","r","i","o","r","i","t","y"," ","h","i","g","h"," ","a","n","d"," ","l","o","w">>,
       <<"p","r","i","o","r","i","t","y"," ","i","s"," ","h","i","g","h"," ","a","n","d"," ","l","o","w">>,
       <<"G","e","t"," ","a","l","l"," ","t","h","e"," ","r","e","q","u","e","s","t"," ","w","i","t","h"," ","p","r","i","o","r","i","t","y"," ","a","s"," ","l","o","w">>,
       <<"G","e","t"," ","a","l","l"," ","u","n","a","s","s","i","g","n","e","d"," ","r","e","q","u","e","s","t","s">>,
       <<"n","o"," ","t","e","c","h","n","i","c","i","a","n">>,
       <<"G","e","t"," ","r","e","q","u","e","s","t","s"," ","c","r","e","a","t","e","d"," ","t","o","d","a","y">>,
       <<"r","e","q","u","e","s","t","s"," ","a","s","s","i","g","n","e","d"," ","t","o"," ","j","o","h","n"," ","s","u","b","j","e","c","t"," ","c","o","n","t","a","i","n","s"," ","p","r","i","n","t","e","r">>,
       <<"w","h","o"," ","i","s"," ","t","h","e"," ","u","s","e","r"," ","b","o","b">>,
       <<"u","r","g","e","n","c","y"," ","l","e","v","e","l","s">>,
       <<"s","h","o","w"," ","t","h","e"," ","c","a","t","a","l","o","g">>,
       <<"c","a","t","a","l","o","g"," ","n","a","m","e"," ","c","o","n","t","a","i","n","s"," ","l","a","p","t","o","p">>,
       <<"p","r","i","o","r","i","t","y"," ","o","f"," ","r","e","c","e","n","t"," ","i","t","e","m","s">> >>
PromptIds == 1..Len(Prompts)

LiveStatuses ==
    << StatusItem(9, <<"O","p","e","n">>, <<>>), StatusItem(10, <<"I","n"," ","P","r","o","g","r","e","s","s">>, <<>>),
       StatusItem(11, <<"P","e","n","d","i","n","g">>, <<>>), StatusItem(12, <<"R","e","s","o","l","v","e","d">>, <<>>),
       StatusItem(13, <<"C","l","o","s","e","d">>, <<>>) >>
StatusResponses ==
    << StatusResponse(200, TRUE, "objectList", LiveStatuses),
       StatusResponse(200, TRUE, "list", LiveStatuses),
       StatusResponse(200, TRUE, "other", <<>>),
       StatusResponse(200, FALSE, "scalar", <<>>),
       StatusResponse(401, TRUE, "other", <<>>),
       StatusResponse(500, TRUE, "other", <<>>),
       StatusResponse(0, FALSE, "scalar", <<>>) >>
StatusResponseIds == 1..Len(StatusResponses)
FailedStatusResponseIds ==
    {r \in StatusResponseIds : StatusResponses[r].status # 200 \/ ~StatusResponses[r].parses}

\* The mappings that the caches of the users, the urgencies and the service
\* catalog can hold: the one of the live system, or nothing.
CachedUsers == <<KV(<<"j","o","h","n">>, 7), KV(<<"b","o","b">>, 9)>>
CachedUrgencies == <<KV(<<"h","i","g","h">>, 4), KV(<<"l","o","w">>, 1)>>
CachedCatalog == <<KV(<<"l","a","p","t","o","p">>, 5)>>
ReferenceCaches ==
    { [users |-> CachedUsers, urgencies |-> CachedUrgencies, catalog |-> CachedCatalog],
      [users |-> EmptyDict, urgencies |-> EmptyDict, catalog |-> EmptyDict] }

FetchedStatuses == [r \in StatusResponseIds |-> _fetch_dynamic_status_mapping(StatusResponses[r])]
StatusMappings == {FetchedStatuses[r] : r \in StatusResponseIds}
ExecutorStatusMappings ==
    {get_status_mapping(FALSE, EmptyDict, t, StatusResponses[r]).result :
        t \in BOOLEAN, r \in StatusResponseIds}
Days == {t \div SecondsPerDay : t \in TimePoints}

\* What the resolvers and the extractors return for each prompt.
UserRefs ==
    [p \in PromptIds, c \in ReferenceCaches |-> resolve_user_references(Prompts[p], c.users)]
UrgencyRefs ==
    [p \in PromptIds, c \in ReferenceCaches |->
        resolve_urgency_references(Prompts[p], c.urgencies)]
StatusRefs ==
    [p \in PromptIds, m \in StatusMappings |-> resolve_status_references(Prompts[p], m)]
PriorityRefs == [p \in PromptIds |-> resolve_priority_references(Prompts[p])]
TextSearches == [p \in PromptIds |-> extract_text_search(Prompts[p])]
Endpoints == [p \in PromptIds |-> detect_endpoint_from_prompt(Prompts[p])]
CatalogQualifications ==
    [p \in PromptIds, c \in ReferenceCaches |->
        build_service_catalog_qualification(Prompts[p], c.catalog)]
AdvancedStatusIds ==
    [p \in PromptIds, m \in ExecutorStatusMappings |-> extract_status_filter(Prompts[p], m)]
AdvancedFilters ==
    [p \in PromptIds |->
        [priority_ids |-> extract_priority_filter(Prompts[p]),
         text_search |-> APIExecutor_extract_text_search(Prompts[p]),
         tag_filters |-> extract_tag_filters(Prompts[p]),
         general_field_filters |-> extract_general_field_filters(Prompts[p])]]
AssignmentFilters ==
    [p \in PromptIds, c \in ReferenceCaches |-> extract_assignment_filters(Prompts[p], c.users)]
DateFilters == [p \in PromptIds, day \in Days |-> extract_date_filters(Prompts[p], day)]

\* build_request_qualification for every prompt, reference data and status
\* mapping, and build_advanced_qualification for every prompt, status
\* mapping, reference data and day.
RequestQualifications ==
    [p \in PromptIds, c \in ReferenceCaches, m \in StatusMappings |->
        AssembleRequest(Prompts[p], UserRefs[p, c], UrgencyRefs[p, c], StatusRefs[p, m],
                        PriorityRefs[p], TextSearches[p])]
AdvancedQualifications ==
    [p \in PromptIds, m \in ExecutorStatusMappings, c \in ReferenceCaches, day \in Days |->
        AssembleAdvanced(AdvancedFilters[p].priority_ids, AdvancedStatusIds[p, m],
                         AdvancedFilters[p].text_search, DateFilters[p, day],
                         AssignmentFilters[p, c], AdvancedFilters[p].tag_filters,
                         AdvancedFilters[p].general_field_filters)]

VARIABLES
    q_cache,                  \* what get_user_mapping, get_urgency_mapping and
                              \* get_service_catalog_mapping return
    q_status_mapping,         \* APIExecutor.status_mapping
    q_status_mapping_loaded,  \* APIExecutor.status_mapping_loaded
    q_out                     \* the last compilation: the operation, the prompt,
                              \* the response of the status API, the endpoint,
                              \* the qualification and the response

compileVars == <<q_cache, q_status_mapping, q_status_mapping_loaded, q_out>>

Compiled(op, p, r, endpoint, qualification, response) ==
    [op |-> op, prompt |-> p, statuses |-> r, endpoint |-> endpoint,
     qualification |-> qualification, response |-> response]

CompileIdle ==
    /\ q_cache = [users |-> EmptyDict, urgencies |-> EmptyDict, catalog |-> EmptyDict]
    /\ q_status_mapping = EmptyDict
    /\ q_status_mapping_loaded = FALSE
    /\ q_out = Compiled("none", 0, 0, "requests", NoQualification, ErrorDict)

CompileInit ==
    /\ q_cache \in ReferenceCaches
    /\ q_status_mapping = EmptyDict
    /\ q_status_mapping_loaded = FALSE
    /\ q_out = Compiled("none", 0, 0, "requests", NoQualification, ErrorDict)

\* One call of MultiEndpointAgent.build_request_qualification, in which the
\* status API answers with response r.
BuildRequestQualification ==
    /\ \E p \in PromptIds, r \in StatusResponseIds :
         q_out' = Compiled("build_request_qualification", p, r, "requests",
                           RequestQualifications[p, q_cache, FetchedStatuses[r]], ErrorDict)
    /\ UNCHANGED <<q_cache, q_status_mapping, q_status_mapping_loaded>>

\* One call of MultiEndpointAgent.execute_query.
ExecuteQuery ==
    /\ \E p \in PromptIds, r \in StatusResponseIds :
         LET endpoint == Endpoints[p]
             qualification ==
                 build_qualification_for_endpoint(endpoint,
                     RequestQualifications[p, q_cache, FetchedStatuses[r]],
                     CatalogQualifications[p, q_cache])
         IN  \E response \in TransportOutcomes(endpoint) :
                /\ q_out' = Compiled("execute_query", p,
                                     IF endpoint = "requests" THEN r ELSE 0,
                                     endpoint, qualification, response.result)
                /\ TokenLeft(response)
    /\ UNCHANGED <<q_cache, q_status_mapping, q_status_mapping_loaded, has_token_url,
                   config_auth_token, t_out, t_calls>>

\* One call of APIExecutor.build_advanced_qualification, in which
\* get_access_token finds a token or none and the status API answers with
\* response r.
BuildAdvancedQualification ==
    /\ \E p \in PromptIds, auth_token \in BOOLEAN, r \in StatusResponseIds :
         LET fetched == get_status_mapping(q_status_mapping_loaded, q_status_mapping,
                                           auth_token, StatusResponses[r])
         IN  /\ q_status_mapping' = fetched.status_mapping
             /\ q_status_mapping_loaded' = fetched.loaded
             /\ q_out' = Compiled("build_advanced_qualification", p,
                                  IF q_status_mapping_loaded THEN 0 ELSE r, "requests",
                                  AdvancedQualifications[p, fetched.result, q_cache,
                                                         now \div SecondsPerDay],
                                  ErrorDict)
    /\ UNCHANGED q_cache

(***************************************************************************)
(* PART 9 - the resolution of one short term by the three parsers of       *)
(* status and priority lists.                                              *)
(***************************************************************************)

\* The letters of the terms.
TermLetters == {"o", "p", "i", "n", "c", "q", "a"}

\* The terms of one or two letters.
ShortTerms ==
    {<<a>> : a \in TermLetters} \cup {<<a, b>> : a \in TermLetters, b \in TermLetters}

\* The status mappings that the terms are resolved against: the one of the
\* live system, and one that has a status with a name of two letters.
TermMappings ==
    { FetchedStatuses[1], Append(FetchedStatuses[1], KV(<<"q","a">>, 15)) }

VARIABLES
    r_term,     \* the term
    r_mapping,  \* the status mapping
    r_out       \* the last resolution: the parser and the statuses or
                \* priorities it returned

termVars == <<r_term, r_mapping, r_out>>

Resolved(op, result) == [op |-> op, result |-> result]

TermsIdle ==
    /\ r_term = <<>>
    /\ r_mapping = EmptyDict
    /\ r_out = Resolved("none", EmptyDict)

TermsInit ==
    /\ r_term \in ShortTerms
    /\ r_mapping \in TermMappings
    /\ r_out = Resolved("none", EmptyDict)

\* _parse_dynamic_status_list on the term.
ParseDynamicStatusList ==
    /\ r_out' = Resolved("_parse_dynamic_status_list",
                         _parse_dynamic_status_list(r_term, r_mapping))
    /\ UNCHANGED <<r_term, r_mapping>>

\* _parse_status_list on the term, as resolve_priority_references calls it.
ParseStatusList ==
    /\ r_out' = Resolved("_parse_status_list", _parse_status_list(r_term, priority_mapping))
    /\ UNCHANGED <<r_term, r_mapping>>

\* _find_multiple_status_clauses on the clause "status is <term>".
FindMultipleStatusClauses ==
    /\ r_out' = Resolved("_find_multiple_status_clauses",
                         _find_multiple_status_clauses(<<"s","t","a","t","u","s"," ","i","s"," ">> \o r_term, r_mapping))
    /\ UNCHANGED <<r_term, r_mapping>>

(***************************************************************************)
(* PART 10 - the reference mappings under concurrent requests.             *)
(*                                                                         *)
(* The server runs every request on a thread of its own, and all requests  *)
(* share the one APIExecutor and its MultiEndpointAgent.  A dict is an     *)
(* object of the heap: self.status_mapping = {} makes a new object and     *)
(* self.status_mapping[name] = id writes to the object that the attribute  *)
(* refers to at that moment.  A step is one read or write of an attribute. *)
(***************************************************************************)

\* Bound: the requests that are served at the same time.
MaxCallers == 3
Callers == 1..MaxCallers

\* The two mappings: "status" is APIExecutor.status_mapping, "user" is
\* MultiEndpointAgent.user_mapping.
MappingNames == {"status", "user"}

\* The responses of the status API that the callers meet: a list of two
\* statuses and a refusal.
CallerStatusResponses ==
    << StatusResponse(200, TRUE, "objectList", SubSeq(LiveStatuses, 1, 2)),
       StatusResponse(401, TRUE, "other", <<>>) >>
CallerStatusResponseIds == 1..Len(CallerStatusResponses)

\* A user of the users API (the first session of a user id).
UserSession(id, name, email) == [id |-> id, name |-> name, email |-> email]
LiveSessions ==
    << UserSession(7, <<"J","o","h","n">>, <<>>), UserSession(9, <<"B","o","b">>, <<"b","o","b","@","x",".","i","o">>) >>

\* The assignments self.status_mapping[...] = status_id of the loop of
\* APIExecutor.get_status_mapping (lines 165-178), in order.
RECURSIVE StatusInserts(_)
StatusInserts(statuses) ==
    IF statuses = <<>> THEN <<>>
    ELSE LET status_name == StrLower(statuses[1].name)
             status_id == statuses[1].id
             system_name == StrLower(statuses[1].systemName)
         IN  (IF status_name # <<>> /\ status_id # 0
              THEN <<KV(status_name, status_id)>>
                   \o (IF system_name # <<>> /\ system_name # status_name
                       THEN <<KV(system_name, status_id)>> ELSE <<>>)
              ELSE <<>>)
             \o StatusInserts(Tail(statuses))

\* The assignments self.user_mapping[...] = int(user_id) of the loop of
\* MultiEndpointAgent.get_user_mapping (lines 233-242), in order.
RECURSIVE UserInserts(_)
UserInserts(sessions) ==
    IF sessions = <<>> THEN <<>>
    ELSE LET user_name == StrLower(sessions[1].name)
             email == StrLower(sessions[1].email)
         IN  (IF user_name # <<>> THEN <<KV(user_name, sessions[1].id)>> ELSE <<>>)
             \o (IF email # <<>> /\ email # user_name
                 THEN <<KV(email, sessions[1].id)>> ELSE <<>>)
             \o UserInserts(Tail(sessions))

\* The statuses that the loop of get_status_mapping runs over (lines 148-158).
StatusesOf(response) ==
    IF response.shape \in {"list", "objectList", "content"}
    THEN response.items ELSE <<StatusItem(0, <<>>, <<>>)>>

VARIABLES
    c_heap,     \* the dict objects: c_heap[o] is the content of object o
    c_ref,      \* c_ref[m]: the object that the attribute of mapping m refers to
    c_loaded,   \* c_loaded[m]: the flag <m>_mapping_loaded
    c_callers   \* per caller: where it is (pc), the mapping it asks for (fn),
                \* the assignments its loop still has to make (todo), whether
                \* it found the flag set (found), the object it got (ret) and
                \* the content it read from that object (seen)

threadVars == <<c_heap, c_ref, c_loaded, c_callers>>

Caller(pc, fn, todo, found, ret, seen) ==
    [pc |-> pc, fn |-> fn, todo |-> todo, found |-> found, ret |-> ret, seen |-> seen]

ThreadsIdle ==
    /\ c_heap = <<>>
    /\ c_ref = [m \in MappingNames |-> 0]
    /\ c_loaded = [m \in MappingNames |-> FALSE]
    /\ c_callers = [t \in Callers |-> Caller("done", "status", <<>>, FALSE, 0, EmptyDict)]

\* APIExecutor.__init__ (lines 41-42) and MultiEndpointAgent.__init__
\* (lines 21, 27): each mapping an empty dict of its own, no flag set.
ThreadsInit ==
    /\ c_heap = <<EmptyDict, EmptyDict>>
    /\ c_ref = [m \in MappingNames |-> IF m = "status" THEN 1 ELSE 2]
    /\ c_loaded = [m \in MappingNames |-> FALSE]
    /\ c_callers = [t \in Callers |-> Caller("idle", "status", <<>>, FALSE, 0, EmptyDict)]

\* A request calls get_status_mapping or get_user_mapping, which reads the
\* flag (line 111 of api_endpoint_server.py, line 221 of
\* multi_endpoint_agent.py).
CheckLoaded(t) ==
    /\ c_callers[t].pc = "idle"
    /\ \E fn \in MappingNames :
         c_callers' = [c_callers EXCEPT ![t] =
             Caller(IF c_loaded[fn] THEN "return" ELSE "fetch", fn, <<>>, c_loaded[fn],
                    0, EmptyDict)]
    /\ UNCHANGED <<c_heap, c_ref, c_loaded>>

\* The request to the API and what the caller makes of the response: the
\* fallback table or the loop for the statuses (lines 117-161, 190-198);
\* return {} or the loop for the users (lines 225-229).
Fetch(t) ==
    /\ c_callers[t].pc = "fetch"
    /\ \/ /\ c_callers[t].fn = "status"
          /\ \E auth_token \in BOOLEAN, r \in CallerStatusResponseIds :
               LET response == CallerStatusResponses[r] IN
               IF ~auth_token \/ response.status # 200 \/ ~response.parses
                  \/ response.shape = "scalar"
               THEN c_callers' = [c_callers EXCEPT ![t].pc = "fallback"]
               ELSE c_callers' = [c_callers EXCEPT ![t].pc = "reset",
                                                   ![t].todo = StatusInserts(StatusesOf(response))]
          /\ UNCHANGED c_heap
       \/ /\ c_callers[t].fn = "user"
          /\ \E ok \in BOOLEAN :
               IF ok
               THEN /\ c_callers' = [c_callers EXCEPT ![t].pc = "reset",
                                                      ![t].todo = UserInserts(LiveSessions)]
                    /\ UNCHANGED c_heap
               ELSE /\ c_heap' = Append(c_heap, EmptyDict)
                    /\ c_callers' = [c_callers EXCEPT ![t].pc = "use",
                                                      ![t].ret = Len(c_heap) + 1]
    /\ UNCHANGED <<c_ref, c_loaded>>

\* _get_fallback_status_mapping (lines 200-217): a new table, the attribute
\* set to it, the flag set, the table returned.
Fallback(t) ==
    /\ c_callers[t].pc = "fallback"
    /\ c_heap' = Append(c_heap, _get_fallback_status_mapping)
    /\ c_ref' = [c_ref EXCEPT !["status"] = Len(c_heap) + 1]
    /\ c_loaded' = [c_loaded EXCEPT !["status"] = TRUE]
    /\ c_callers' = [c_callers EXCEPT ![t].pc = "use", ![t].ret = Len(c_heap) + 1]

\* self.status_mapping = {} (line 164), self.user_mapping = {} (line 232).
Reset(t) ==
    /\ c_callers[t].pc = "reset"
    /\ c_heap' = Append(c_heap, EmptyDict)
    /\ c_ref' = [c_ref EXCEPT ![c_callers[t].fn] = Len(c_heap) + 1]
    /\ c_callers' = [c_callers EXCEPT ![t].pc = IF c_callers[t].todo = <<>> THEN "flag"
                                                ELSE "fill"]
    /\ UNCHANGED c_loaded

\* One assignment of the loop (lines 175, 178; lines 240, 242): to the object
\* that the attribute refers to now.
Fill(t) ==
    /\ c_callers[t].pc = "fill"
    /\ LET entry == Head(c_callers[t].todo)
           rest == Tail(c_callers[t].todo)
           o == c_ref[c_callers[t].fn]
       IN  /\ c_heap' = [c_heap EXCEPT ![o] = DictSet(@, entry.k, entry.v)]
           /\ c_callers' = [c_callers EXCEPT ![t].todo = rest,
                                             ![t].pc = IF rest = <<>> THEN "flag" ELSE "fill"]
    /\ UNCHANGED <<c_ref, c_loaded>>

\* self.status_mapping_loaded = True (line 185), self.user_mapping_loaded =
\* True (line 244).
SetLoaded(t) ==
    /\ c_callers[t].pc = "flag"
    /\ c_loaded' = [c_loaded EXCEPT ![c_callers[t].fn] = TRUE]
    /\ c_callers' = [c_callers EXCEPT ![t].pc = "return"]
    /\ UNCHANGED <<c_heap, c_ref>>

\* return self.status_mapping (lines 112, 189), return self.user_mapping
\* (lines 222, 246).
Return(t) ==
    /\ c_callers[t].pc = "return"
    /\ c_callers' = [c_callers EXCEPT ![t].pc = "use", ![t].ret = c_ref[c_callers[t].fn]]
    /\ UNCHANGED <<c_heap, c_ref, c_loaded>>

\* The caller reads the mapping it got: status_mapping.items() in
\* extract_status_filter (line 362), the lookups in user_mapping of
\* resolve_user_references.
Use(t) ==
    /\ c_callers[t].pc = "use"
    /\ c_callers' = [c_callers EXCEPT ![t].pc = "done", ![t].seen = c_heap[c_callers[t].ret]]
    /\ UNCHANGED <<c_heap, c_ref, c_loaded>>

(***************************************************************************)
(* PART 11 - the prompts of the forms that test_all_cases.py posts:        *)
(* "... where status is X", "... where assignee is V" and                  *)
(* "... where subject is W".                                               *)
(***************************************************************************)

\* str.upper(), one character at a time.
UpperChar(c) ==
    IF \E u \in UpperLetters : LowerChar(u) = c THEN CHOOSE u \in UpperLetters : LowerChar(u) = c
    ELSE c
StrUpper(s) == [i \in 1..Len(s) |-> UpperChar(s[i])]

\* The statuses that the status API lists: those of the live system, and
\* those of a system that also has a status whose name begins with the
\* name of another one.
SuiteStatuses ==
    << LiveStatuses, Append(LiveStatuses, StatusItem(18, <<"P","e","n","d","i","n","g"," ","A","p","p","r","o","v","a","l">>, <<>>)) >>
SuiteStatusIds == 1..Len(SuiteStatuses)
SuiteMappings ==
    [m \in SuiteStatusIds |->
        _fetch_dynamic_status_mapping(StatusResponse(200, TRUE, "objectList", SuiteStatuses[m]))]

\* A name as the status API spells it, in small letters and in capitals.
Casings == {"api", "lower", "upper"}
Cased(name, casing) ==
    CASE casing = "api" -> name
      [] casing = "lower" -> StrLower(name)
      [] casing = "upper" -> StrUpper(name)

SuitePrefix == <<"G","e","t"," ","m","e"," ","a","l","l"," ","t","h","e"," ","r","e","q","u","e","s","t"," ","w","h","e","r","e"," ">>
StatusForms == 1..3
StatusPrompt(form, name) ==
    CASE form = 1 -> SuitePrefix \o <<"s","t","a","t","u","s"," ","i","s"," ">> \o name
      [] form = 2 -> SuitePrefix \o <<"s","t","a","t","u","s"," ","i","s"," ","i","n"," ">> \o name
      [] form = 3 -> SuitePrefix \o <<"s","t","a","t","u","s"," ","i","s"," ","i","n"," ">> \o name \o <<" ","s","t","a","t","e">>

AssigneeOperators == <<<<"i","n","c","l","u","d","e","s">>, <<"h","a","s">>, <<"c","o","n","t","a","i","n","s">>, <<"i","n">>, <<"i","s">>>>
AssigneeValues == <<<<"u","n","a","s","s","i","g","n","e","d">>, <<"n","o","n","e">>, <<"n","u","l","l">>>>
AssigneePrompt(operator, value) ==
    SuitePrefix \o <<"a","s","s","i","g","n","e","e"," ">> \o operator \o <<" ">> \o value

SubjectOperators == <<<<"i","s">>, <<"c","o","n","t","a","i","n","s">>, <<"h","a","s">>>>
SubjectWords == <<<<"T","e","s","t">>, <<"p","r","i","n","t","e","r">>, <<"O","p","e","n">>, <<"j","o","h","n">>, <<"h","i","g","h">>>>
SubjectPrompt(operator, word) ==
    SuitePrefix \o <<"s","u","b","j","e","c","t"," ">> \o operator \o <<" ">> \o word

\* What build_request_qualification and build_advanced_qualification make
\* of each prompt.
StatusQualifications ==
    [m \in SuiteStatusIds, i \in 1..Len(SuiteStatuses[2]), casing \in Casings,
     form \in StatusForms |->
        IF i > Len(SuiteStatuses[m]) THEN NoQualification
        ELSE build_request_qualification(
                 StatusPrompt(form, Cased(SuiteStatuses[m][i].name, casing)),
                 CachedUsers, CachedUrgencies, SuiteMappings[m])]
AssigneeQualifications ==
    [o \in 1..Len(AssigneeOperators), v \in 1..Len(AssigneeValues), c \in ReferenceCaches |->
        build_request_qualification(AssigneePrompt(AssigneeOperators[o], AssigneeValues[v]),
                                    c.users, c.urgencies, SuiteMappings[1])]
AssigneeAdvancedQualifications ==
    [o \in 1..Len(AssigneeOperators), v \in 1..Len(AssigneeValues), c \in ReferenceCaches |->
        build_advanced_qualification(AssigneePrompt(AssigneeOperators[o], AssigneeValues[v]),
                                     SuiteMappings[1], c.users, 0)]
SubjectQualifications ==
    [o \in 1..Len(SubjectOperators), w \in 1..Len(SubjectWords), c \in ReferenceCaches,
     m \in SuiteStatusIds |->
        build_request_qualification(SubjectPrompt(SubjectOperators[o], SubjectWords[w]),
                                    c.users, c.urgencies, SuiteMappings[m])]

VARIABLES
    s_out   \* the last prompt compiled: the prompt, the status mapping and
            \* the users it was compiled with, its form, what it names, and
            \* the qualifications of build_request_qualification and of
            \* build_advanced_qualification

suiteVars == <<s_out>>

Posted(form, prompt, mapping, users, name, id, word, qualification, advanced) ==
    [form |-> form, prompt |-> prompt, mapping |-> mapping, users |-> users,
     name |-> name, id |-> id, word |-> word,
     qualification |-> qualification, advanced |-> advanced]

SuiteIdle ==
    s_out = Posted("none", <<>>, EmptyDict, EmptyDict, <<>>, 0, <<>>, NoQualification,
                   NoQualification)
SuiteInit == SuiteIdle

\* "... where status is X" for a status X of the mapping.
StatusIs ==
    \E m \in SuiteStatusIds, casing \in Casings, form \in StatusForms :
        \E i \in 1..Len(SuiteStatuses[m]) :
            s_out' = Posted("status",
                            StatusPrompt(form, Cased(SuiteStatuses[m][i].name, casing)),
                            SuiteMappings[m], CachedUsers,
                            SuiteStatuses[m][i].name, SuiteStatuses[m][i].id, <<>>,
                            StatusQualifications[m, i, casing, form], NoQualification)

\* "... where assignee <operator> V" for V one of unassigned, none, null.
AssigneeIs ==
    \E o \in 1..Len(AssigneeOperators), v \in 1..Len(AssigneeValues), c \in ReferenceCaches :
        s_out' = Posted("assignee", AssigneePrompt(AssigneeOperators[o], AssigneeValues[v]),
                        SuiteMappings[1], c.users,
                        AssigneeOperators[o], 0, AssigneeValues[v],
                        AssigneeQualifications[o, v, c],
                        AssigneeAdvancedQualifications[o, v, c])

\* "... where subject <operator> W" for a word W.
SubjectIs ==
    \E o \in 1..Len(SubjectOperators), w \in 1..Len(SubjectWords), c \in ReferenceCaches,
       m \in SuiteStatusIds :
        s_out' = Posted("subject", SubjectPrompt(SubjectOperators[o], SubjectWords[w]),
                        SuiteMappings[m], c.users,
                        SubjectOperators[o], 0, SubjectWords[w],
                        SubjectQualifications[o, w, c, m], NoQualification)


(***************************************************************************)
(* PART 12.  The validation at the end of build_request_qualification     *)
(* (multi_endpoint_agent.py, lines 1387-1416): the detection of             *)
(* conflicting filters and the validation of the lists of IDs, for prompts  *)
(* that include and exclude, and for reference data in which two names      *)
(* share an ID or an ID is no number.                                       *)
(***************************************************************************)
ValidatePrompts ==
    << <<"h","i","g","h"," ","p","r","i","o","r","i","t","y"," ","e","x","c","l","u","d","i","n","g"," ","l","o","w">>,
       <<"s","t","a","t","u","s"," ","i","s"," ","o","p","e","n"," ","b","u","t"," ","n","o","t"," ","c","l","o","s","e","d">>,
       <<"s","t","a","t","u","s"," ","i","s"," ","o","p","e","n"," ","o","r"," ","n","e","w">>,
       <<"s","t","a","t","u","s"," ","i","s"," ","c","l","o","s","e","d">>,
       <<"o","p","e","n"," ","a","n","d"," ","c","l","o","s","e","d"," ","r","e","q","u","e","s","t","s">>,
       <<"r","e","q","u","e","s","t","s"," ","e","x","c","e","p","t"," ","c","l","o","s","e","d">>,
       <<"u","r","g","e","n","c","y"," ","i","s"," ","h","i","g","h">>,
       <<"r","e","q","u","e","s","t","s"," ","a","s","s","i","g","n","e","d"," ","t","o"," ","j","o","h","n">>,
       <<"s","u","b","j","e","c","t"," ","c","o","n","t","a","i","n","s"," ","p","r","i","n","t","e","r">>,
       <<"G","e","t"," ","a","l","l"," ","r","e","q","u","e","s","t","s">> >>
ValidatePromptIds == 1..Len(ValidatePrompts)

\* The statuses that the status API lists: those of the live system, two
\* names for one ID, and an ID that the API delivers as a string.
ValidateStatuses ==
    << LiveStatuses,
       << StatusItem(9, <<"O","p","e","n">>, <<>>), StatusItem(9, <<"N","e","w">>, <<>>),
          StatusItem(13, <<"C","l","o","s","e","d">>, <<>>) >>,
       << StatusItem(9, <<"O","p","e","n">>, <<>>), StatusItem(NonNumeric, <<"C","l","o","s","e","d">>, <<>>) >> >>
ValidateStatusIds == 1..Len(ValidateStatuses)
ValidateMappings ==
    [m \in ValidateStatusIds |->
        _fetch_dynamic_status_mapping(StatusResponse(200, TRUE, "objectList",
                                                     ValidateStatuses[m]))]
ValidateUrgencies ==
    << CachedUrgencies, <<KV(<<"h","i","g","h">>, NonNumeric), KV(<<"l","o","w">>, 1)>>, EmptyDict >>
ValidateUrgencyIds == 1..Len(ValidateUrgencies)
ValidateUsers == << CachedUsers, EmptyDict >>
ValidateUserIds == 1..Len(ValidateUsers)

\* The leaves with which build_request_qualification comes to line 1387.
RequestLeaves ==
    [p \in ValidatePromptIds, m \in ValidateStatusIds, u \in ValidateUrgencyIds,
     c \in ValidateUserIds |->
        AssembledLeaves(ValidatePrompts[p],
                        resolve_user_references(ValidatePrompts[p], ValidateUsers[c]),
                        resolve_urgency_references(ValidatePrompts[p], ValidateUrgencies[u]),
                        resolve_status_references(ValidatePrompts[p], ValidateMappings[m]),
                        resolve_priority_references(ValidatePrompts[p]),
                        extract_text_search(ValidatePrompts[p]))]

\* Bound: the length of the longest list of IDs that is validated; the
\* warning of line 1210 is for more than 100 values.
MaxValues == 101
Ramp(n) == [i \in 1..n |-> i]
FilterValues ==
    { <<>>, <<9>>, <<9, 9, 13>>, <<13, 9, 13, 9>>, <<9, NonNumeric>>, <<NonNumeric>>,
      Ramp(MaxValues - 1), Ramp(MaxValues), Ramp(MaxValues) \o Ramp(MaxValues) }

VARIABLES
    v_out   \* the last validation: the operation, the prompt and the
            \* reference data, the leaves before the validation, what
            \* _detect_conflicting_filters returned, and the leaves returned

validateVars == <<v_out>>

Validation(op, prompt, statuses, urgencies, users, quals, has_conflicts, returned) ==
    [op |-> op, prompt |-> prompt, statuses |-> statuses, urgencies |-> urgencies,
     users |-> users, quals |-> quals, has_conflicts |-> has_conflicts,
     returned |-> returned]

ValidateIdle ==
    v_out = Validation("none", <<>>, EmptyDict, EmptyDict, EmptyDict, <<>>, FALSE, <<>>)
ValidateInit == ValidateIdle

\* Lines 1387-1416 for the leaves quals: has_conflicts is only printed, and
\* the lists of IDs are replaced by their validated values.
ValidatedRequest(prompt, statuses, urgencies, users, quals) ==
    Validation("build_request_qualification", prompt, statuses, urgencies, users, quals,
               quals # <<>> /\ _detect_conflicting_filters(quals),
               Validated(quals))

\* One call of build_request_qualification.
ValidateRequest ==
    \E p \in ValidatePromptIds, m \in ValidateStatusIds, u \in ValidateUrgencyIds,
       c \in ValidateUserIds :
        v_out' = ValidatedRequest(ValidatePrompts[p], ValidateMappings[m],
                                  ValidateUrgencies[u], ValidateUsers[c],
                                  RequestLeaves[p, m, u, c])

\* One call of _validate_filter_values.
ValidatedValues(filter_values) ==
    Validation("_validate_filter_values", <<>>, EmptyDict, EmptyDict, EmptyDict,
               <<ListLongLeaf("request.statusId", "in", filter_values)>>, FALSE,
               <<ListLongLeaf("request.statusId", "in",
                              _validate_filter_values(filter_values))>>)
ValidateFilterValues ==
    \E filter_values \in FilterValues : v_out' = ValidatedValues(filter_values)


(***************************************************************************)
(* PART 13.  The tie-break of the status resolution: Step 7 of             *)
(* resolve_status_references, _prioritize_explicit_status_mentions          *)
(* (multi_endpoint_agent.py, lines 924-960), for a mapping of six statuses  *)
(* and every selection of them as the detected statuses.                    *)
(***************************************************************************)
PrioritizeStatuses == Append(LiveStatuses, StatusItem(14, <<"O","n"," ","H","o","l","d">>, <<>>))
PrioritizeMapping ==
    _fetch_dynamic_status_mapping(StatusResponse(200, TRUE, "objectList", PrioritizeStatuses))
PrioritizePrompts ==
    << <<"s","t","a","t","u","s"," ","i","s"," ","o","p","e","n",","," ","i","n"," ","p","r","o","g","r","e","s","s",","," ","p","e","n","d","i","n","g",","," ","r","e","s","o","l","v","e","d",","," ","c","l","o","s","e","d"," ","o","r"," ","o","n"," ","h","o","l","d">>,
       <<"o","p","e","n"," ","a","n","d"," ","c","l","o","s","e","d">>,
       <<"s","h","o","w"," ","t","h","e"," ","t","i","c","k","e","t","s">>,
       <<"u","n","r","e","s","o","l","v","e","d"," ","r","e","q","u","e","s","t","s">> >>
PrioritizePromptIds == 1..Len(PrioritizePrompts)

\* The statuses detected by Steps 1 to 6: a selection of the entries of the
\* mapping, in the order of the mapping.
Selections == SUBSET (1..Len(PrioritizeMapping))
Detected(selection) == Pick(PrioritizeMapping, selection)

PrioritizedStatuses ==
    [p \in PrioritizePromptIds, selection \in Selections |->
        _prioritize_explicit_status_mentions(PrioritizePrompts[p], Detected(selection),
                                             PrioritizeMapping)]
ResolvedStatuses ==
    [p \in PrioritizePromptIds |->
        resolve_status_references(PrioritizePrompts[p], PrioritizeMapping)]

\* The keys of the mapping that the prompt holds between word boundaries
\* (lines 934-940).
ExplicitMentions ==
    [p \in PrioritizePromptIds |->
        {PrioritizeMapping[i].k : i \in
            {j \in 1..Len(PrioritizeMapping) :
                ReSearch(WholeText(PrioritizeMapping[j].k),
                         StrLower(PrioritizePrompts[p])).found}}]

VARIABLES
    p_out   \* the last call: the operation, the prompt, the keys of the
            \* mapping that it mentions, the statuses detected and the
            \* statuses returned

prioritizeVars == <<p_out>>

Prioritized(op, prompt, mentions, detected, result) ==
    [op |-> op, prompt |-> prompt, mentions |-> mentions, detected |-> detected,
     result |-> result]

PrioritizeIdle == p_out = Prioritized("none", <<>>, {}, EmptyDict, EmptyDict)
PrioritizeInit == PrioritizeIdle

\* One call of _prioritize_explicit_status_mentions.
PrioritizeExplicit ==
    \E p \in PrioritizePromptIds, selection \in Selections :
        p_out' = Prioritized("_prioritize_explicit_status_mentions", PrioritizePrompts[p],
                             ExplicitMentions[p], Detected(selection),
                             PrioritizedStatuses[p, selection])

\* One call of resolve_status_references: the statuses of Step 7 are the
\* included statuses of the result.
ResolveStatusReferences ==
    \E p \in PrioritizePromptIds :
        p_out' = Prioritized("resolve_status_references", PrioritizePrompts[p],
                             ExplicitMentions[p], EmptyDict, ResolvedStatuses[p].included)


(***************************************************************************)
(* PART 14.  The handler of POST /execute-request (api_endpoint_server.py, *)
(* lines 1266-1357): execute_query of the multi-endpoint agent, the answer  *)
(* made of its result, and the fallback to APIExecutor.execute_api_call.    *)
(***************************************************************************)
VARIABLES
    h_out   \* the last request handled: the prompt, the endpoint detected,
            \* whether execute_query raised, whether it returned a
            \* qualification, what its API call returned, and
            \* the answer of the handler

handlerVars == <<h_out>>

\* The body that a successful API call returns is a dict or a list.
BodyShapesReturned == {"dict", "list"}

\* The answer of the handler: the success flag of the body, the HTTP status,
\* who made it ("multi" for the multi-endpoint agent, "fallback" for
\* execute_api_call), the endpoint whose data it holds, and whether it
\* holds the data of the API response.
Answer(success, status, by, endpoint_used, has_data) ==
    [success |-> success, status |-> status, by |-> by, endpoint_used |-> endpoint_used,
     has_data |-> has_data]

\* The test of lines 1292-1297.
qualification_generated(qualification) == qualification # NoQualification

\* APIExecutor.execute_api_call as the handler sees it: a request search,
\* which succeeds or fails (lines 1149-1264).
FallbackAnswer(success) ==
    Answer(success, IF success THEN 200 ELSE 500, "fallback", "requests", success)

\* Lines 1287-1348, given what execute_query returned or that it raised.
\* A body that is a list has no get(): lines 1314 and 1330 raise and the
\* handler of line 1335 falls back.
execute_request(raised, endpoint, qualification, response, shape, fallback) ==
    IF raised THEN FallbackAnswer(fallback)
    ELSE IF response = BodyResult /\ shape = "list" THEN FallbackAnswer(fallback)
    ELSE IF qualification_generated(qualification)
    THEN Answer(TRUE, 200, "multi", endpoint, response = BodyResult)
    ELSE Answer(FALSE, 500, "multi", endpoint, FALSE)

Handled(p, endpoint, raised, generated, response, answer) ==
    [op |-> "execute_request", prompt |-> p, endpoint |-> endpoint, raised |-> raised,
     generated |-> generated, response |-> response, answer |-> answer]

HandlerIdle ==
    h_out = [op |-> "none", prompt |-> 0, endpoint |-> "requests", raised |-> FALSE,
             generated |-> FALSE, response |-> ErrorDict, answer |-> Answer(FALSE, 500, "none", "requests", FALSE)]

\* What the fallback leaves in the executor: extract_status_filter loads the
\* status mapping once get_access_token has returned a token (line 1159).
FallbackLeaves(by, auth_token, statuses) ==
    IF by = "fallback" /\ auth_token
    THEN /\ q_status_mapping' =
                get_status_mapping(q_status_mapping_loaded, q_status_mapping, TRUE,
                                   statuses).status_mapping
         /\ q_status_mapping_loaded' = TRUE
    ELSE UNCHANGED <<q_status_mapping, q_status_mapping_loaded>>

\* The handler once execute_query has returned or raised.
AnswerRequest(p, endpoint, raised, generated, response, answer, auth_token, statuses) ==
    /\ h_out' = Handled(p, endpoint, raised, generated, response, answer)
    /\ FallbackLeaves(answer.by, auth_token, statuses)

\* The prompts posted to the handler, one or two for each endpoint, and the
\* answers of the status API: the statuses of the live system, or HTTP 500.
HandlerPrompts ==
    { <<"G","e","t"," ","a","l","l"," ","r","e","q","u","e","s","t","s">>, <<"r","e","q","u","e","s","t","s"," ","w","i","t","h"," ","s","t","a","t","u","s"," ","c","l","o","s","e","d">>, <<"w","h","o"," ","i","s"," ","t","h","e"," ","u","s","e","r"," ","b","o","b">>,
      <<"u","r","g","e","n","c","y"," ","l","e","v","e","l","s">>, <<"s","h","o","w"," ","t","h","e"," ","c","a","t","a","l","o","g">>, <<"c","a","t","a","l","o","g"," ","n","a","m","e"," ","c","o","n","t","a","i","n","s"," ","l","a","p","t","o","p">> }
HandlerPromptIds == {p \in PromptIds : Prompts[p] \in HandlerPrompts}
HandlerStatusResponseIds ==
    {r \in StatusResponseIds :
        StatusResponses[r] \in { StatusResponse(200, TRUE, "objectList", LiveStatuses),
                                 StatusResponse(500, TRUE, "other", <<>>) }}

\* One request to /execute-request.  execute_query raises when a resolver
\* does (a user id that is no number, a name that is null).
ExecuteRequest ==
    /\ \E p \in HandlerPromptIds, r \in HandlerStatusResponseIds, raised \in BOOLEAN,
          shape \in BodyShapesReturned, auth_token \in BOOLEAN,
          f \in HandlerStatusResponseIds :
         \E response \in TransportOutcomes(Endpoints[p]) :
            /\ raised => Endpoints[p] \in {"requests", "service_catalog"}
            /\ AnswerRequest(p, Endpoints[p], raised,
                   ~raised /\ qualification_generated(
                       build_qualification_for_endpoint(Endpoints[p],
                           RequestQualifications[p, q_cache, FetchedStatuses[r]],
                           CatalogQualifications[p, q_cache])),
                   IF raised THEN ErrorDict ELSE response.result,
                   execute_request(raised, Endpoints[p],
                       build_qualification_for_endpoint(Endpoints[p],
                           RequestQualifications[p, q_cache, FetchedStatuses[r]],
                           CatalogQualifications[p, q_cache]),
                       response.result, shape, auth_token /\ StatusResponses[f].status = 200),
                   auth_token, StatusResponses[f])
            /\ IF raised THEN UNCHANGED <<access_token, token_expiry, issued>>
               ELSE TokenLeft(response)
    /\ UNCHANGED <<q_cache, q_out, has_token_url, config_auth_token, t_out, t_calls>>

vars == <<facadeVars, now, transportVars, meaVars, enhancedVars, compileVars, termVars, threadVars, suiteVars, validateVars, prioritizeVars, handlerVars>>

FacadeIdle ==
    /\ llama_only_mode = FALSE
    /\ llm_type = "none"
    /\ f_in = [resp |-> [http |-> "ok", text |-> "json", payload |-> EmptyQualification],
               run |-> [error |-> FALSE, quals |-> <<>>]]
    /\ f_out = Returned(NoPayload, "none")
    /\ f_invoked = <<>>
    /\ f_calls = 0

(***************************************************************************)
(* The specifications: one per part of the program.                        *)
(***************************************************************************)

\* The facade.
Init ==
    /\ FacadeInit /\ now = 0 /\ has_token_url = FALSE /\ TransportIdle /\ MeaIdle
    /\ EnhancedIdle /\ CompileIdle /\ TermsIdle /\ ThreadsIdle /\ SuiteIdle /\ ValidateIdle /\ PrioritizeIdle /\ HandlerIdle

Next == GenerateIntelligentFilter /\ UNCHANGED <<now, transportVars, meaVars, enhancedVars, compileVars, termVars, threadVars, suiteVars, validateVars, prioritizeVars, handlerVars>>

Spec == Init /\ [][Next]_vars

\* The transport.
InitTransport == TransportInit /\ FacadeIdle /\ MeaIdle /\ EnhancedIdle /\ CompileIdle /\ TermsIdle /\ ThreadsIdle /\ SuiteIdle /\ ValidateIdle /\ PrioritizeIdle /\ HandlerIdle

TransportTick == Tick /\ UNCHANGED <<facadeVars, transportVars, meaVars, enhancedVars, compileVars, termVars, threadVars, suiteVars, validateVars, prioritizeVars, handlerVars>>
TransportMakeApiRequest == MakeApiRequest /\ UNCHANGED <<facadeVars, now, meaVars, enhancedVars, compileVars, termVars, threadVars, suiteVars, validateVars, prioritizeVars, handlerVars>>
TransportExecuteApiCall == ExecuteApiCall /\ UNCHANGED <<facadeVars, now, meaVars, enhancedVars, compileVars, termVars, threadVars, suiteVars, validateVars, prioritizeVars, handlerVars>>

NextTransport ==
    \/ TransportTick
    \/ TransportMakeApiRequest
    \/ TransportExecuteApiCall

SpecTransport == InitTransport /\ [][NextTransport]_vars

\* The reference data of MultiEndpointAgent, under the configuration that
\* is shipped (no TOKEN_URL).
InitReference ==
    /\ now = 0 /\ has_token_url = FALSE /\ TransportIdle /\ FacadeIdle /\ MeaIdle
    /\ EnhancedIdle /\ CompileIdle /\ TermsIdle /\ ThreadsIdle /\ SuiteIdle /\ ValidateIdle /\ PrioritizeIdle /\ HandlerIdle

ReferenceGetUserMapping == GetUserMapping /\ UNCHANGED <<facadeVars, now, enhancedVars, compileVars, termVars, threadVars, suiteVars, validateVars, prioritizeVars, handlerVars>>
ReferenceGetUrgencyMapping == GetUrgencyMapping /\ UNCHANGED <<facadeVars, now, enhancedVars, compileVars, termVars, threadVars, suiteVars, validateVars, prioritizeVars, handlerVars>>
ReferenceGetServiceCatalogMapping ==
    GetServiceCatalogMapping /\ UNCHANGED <<facadeVars, now, enhancedVars, compileVars, termVars, threadVars, suiteVars, validateVars, prioritizeVars, handlerVars>>

NextReference ==
    \/ ReferenceGetUserMapping
    \/ ReferenceGetUrgencyMapping
    \/ ReferenceGetServiceCatalogMapping

SpecReference == InitReference /\ [][NextReference]_vars

\* The field mappings cache of EnhancedMultiEndpointAgent, for each way the
\* agent can be built.
InitCache ==
    /\ \E c \in FacadeConfigs : llama_only_mode = c[1] /\ llm_type = c[2]
    /\ f_in = [resp |-> [http |-> "ok", text |-> "json", payload |-> EmptyQualification],
               run |-> [error |-> FALSE, quals |-> <<>>]]
    /\ f_out = Returned(NoPayload, "none")
    /\ f_invoked = <<>>
    /\ f_calls = 0
    /\ now = 0 /\ has_token_url = FALSE /\ TransportIdle /\ MeaIdle /\ EnhancedIdle
    /\ CompileIdle /\ TermsIdle /\ ThreadsIdle /\ SuiteIdle /\ ValidateIdle /\ PrioritizeIdle /\ HandlerIdle

CacheTick == Tick /\ UNCHANGED <<facadeVars, transportVars, meaVars, enhancedVars, compileVars, termVars, threadVars, suiteVars, validateVars, prioritizeVars, handlerVars>>
CacheUpdateFieldMappings ==
    UpdateFieldMappings /\ UNCHANGED <<facadeVars, now, meaVars, compileVars, termVars, threadVars, suiteVars, validateVars, prioritizeVars, handlerVars>>

NextCache ==
    \/ CacheTick
    \/ CacheUpdateFieldMappings

SpecCache == InitCache /\ [][NextCache]_vars


\* The compiler of MultiEndpointAgent, under the configuration that is
\* shipped (no TOKEN_URL), with the reference data that the caches hold.
InitCompile ==
    /\ now = 0 /\ has_token_url = FALSE /\ TransportIdle /\ FacadeIdle /\ MeaIdle
    /\ EnhancedIdle /\ CompileInit /\ TermsIdle /\ ThreadsIdle /\ SuiteIdle /\ ValidateIdle /\ PrioritizeIdle /\ HandlerIdle

CompileBuildRequestQualification ==
    BuildRequestQualification
    /\ UNCHANGED <<facadeVars, now, transportVars, meaVars, enhancedVars, termVars, threadVars, suiteVars, validateVars, prioritizeVars, handlerVars>>
CompileExecuteQuery == ExecuteQuery /\ UNCHANGED <<facadeVars, now, meaVars, enhancedVars, termVars, threadVars, suiteVars, validateVars, prioritizeVars, handlerVars>>

NextCompile ==
    \/ CompileBuildRequestQualification
    \/ CompileExecuteQuery

SpecCompile == InitCompile /\ [][NextCompile]_vars

\* The compiler of the fallback path, APIExecutor, while time passes.
InitAdvanced == InitCompile

AdvancedTick ==
    Tick /\ UNCHANGED <<facadeVars, transportVars, meaVars, enhancedVars, compileVars, termVars, threadVars, suiteVars, validateVars, prioritizeVars, handlerVars>>
AdvancedBuildAdvancedQualification ==
    BuildAdvancedQualification
    /\ UNCHANGED <<facadeVars, now, transportVars, meaVars, enhancedVars, termVars, threadVars, suiteVars, validateVars, prioritizeVars, handlerVars>>

NextAdvanced ==
    \/ AdvancedTick
    \/ AdvancedBuildAdvancedQualification

SpecAdvanced == InitAdvanced /\ [][NextAdvanced]_vars

\* The parsers of status and priority lists on one short term.
InitTerms ==
    /\ now = 0 /\ has_token_url = FALSE /\ TransportIdle /\ FacadeIdle /\ MeaIdle
    /\ EnhancedIdle /\ CompileIdle /\ TermsInit /\ ThreadsIdle /\ SuiteIdle /\ ValidateIdle /\ PrioritizeIdle /\ HandlerIdle

OtherThanTerms == <<facadeVars, now, transportVars, meaVars, enhancedVars, compileVars, threadVars, suiteVars, validateVars, prioritizeVars, handlerVars>>

TermsParseDynamicStatusList == ParseDynamicStatusList /\ UNCHANGED OtherThanTerms
TermsParseStatusList == ParseStatusList /\ UNCHANGED OtherThanTerms
TermsFindMultipleStatusClauses == FindMultipleStatusClauses /\ UNCHANGED OtherThanTerms

NextTerms ==
    \/ TermsParseDynamicStatusList
    \/ TermsParseStatusList
    \/ TermsFindMultipleStatusClauses

SpecTerms == InitTerms /\ [][NextTerms]_vars

\* Concurrent requests on the shared executor and agent.
InitThreads ==
    /\ now = 0 /\ has_token_url = FALSE /\ TransportIdle /\ FacadeIdle /\ MeaIdle
    /\ EnhancedIdle /\ CompileIdle /\ TermsIdle /\ ThreadsInit /\ SuiteIdle /\ ValidateIdle /\ PrioritizeIdle /\ HandlerIdle

OtherThanThreads == <<facadeVars, now, transportVars, meaVars, enhancedVars, compileVars, termVars, suiteVars, validateVars, prioritizeVars, handlerVars>>

ThreadsCheckLoaded == (\E t \in Callers : CheckLoaded(t)) /\ UNCHANGED OtherThanThreads
ThreadsFetch == (\E t \in Callers : Fetch(t)) /\ UNCHANGED OtherThanThreads
ThreadsFallback == (\E t \in Callers : Fallback(t)) /\ UNCHANGED OtherThanThreads
ThreadsReset == (\E t \in Callers : Reset(t)) /\ UNCHANGED OtherThanThreads
ThreadsFill == (\E t \in Callers : Fill(t)) /\ UNCHANGED OtherThanThreads
ThreadsSetLoaded == (\E t \in Callers : SetLoaded(t)) /\ UNCHANGED OtherThanThreads
ThreadsReturn == (\E t \in Callers : Return(t)) /\ UNCHANGED OtherThanThreads
ThreadsUse == (\E t \in Callers : Use(t)) /\ UNCHANGED OtherThanThreads

NextThreads ==
    \/ ThreadsCheckLoaded
    \/ ThreadsFetch
    \/ ThreadsFallback
    \/ ThreadsReset
    \/ ThreadsFill
    \/ ThreadsSetLoaded
    \/ ThreadsReturn
    \/ ThreadsUse

SpecThreads == InitThreads /\ [][NextThreads]_vars

\* The prompts of the forms of the test suite.
InitSuite ==
    /\ now = 0 /\ has_token_url = FALSE /\ TransportIdle /\ FacadeIdle /\ MeaIdle
    /\ EnhancedIdle /\ CompileIdle /\ TermsIdle /\ ThreadsIdle /\ SuiteInit /\ ValidateIdle /\ PrioritizeIdle /\ HandlerIdle

OtherThanSuite == <<facadeVars, now, transportVars, meaVars, enhancedVars, compileVars, termVars, threadVars, validateVars, prioritizeVars, handlerVars>>

SuiteStatusIs == StatusIs /\ UNCHANGED OtherThanSuite
SuiteAssigneeIs == AssigneeIs /\ UNCHANGED OtherThanSuite
SuiteSubjectIs == SubjectIs /\ UNCHANGED OtherThanSuite

NextSuite ==
    \/ SuiteStatusIs
    \/ SuiteAssigneeIs
    \/ SuiteSubjectIs

SpecSuite == InitSuite /\ [][NextSuite]_vars

\* The validation at the end of build_request_qualification.
InitValidate ==
    /\ now = 0 /\ has_token_url = FALSE /\ TransportIdle /\ FacadeIdle /\ MeaIdle
    /\ EnhancedIdle /\ CompileIdle /\ TermsIdle /\ ThreadsIdle /\ SuiteIdle /\ ValidateInit /\ PrioritizeIdle /\ HandlerIdle

OtherThanValidate ==
    <<facadeVars, now, transportVars, meaVars, enhancedVars, compileVars, termVars,
      threadVars, suiteVars, prioritizeVars, handlerVars>>

ValidateBuildRequest == ValidateRequest /\ UNCHANGED OtherThanValidate
ValidateValues == ValidateFilterValues /\ UNCHANGED OtherThanValidate

NextValidate ==
    \/ ValidateBuildRequest
    \/ ValidateValues

SpecValidate == InitValidate /\ [][NextValidate]_vars

\* The tie-break of the status resolution.
InitPrioritize ==
    /\ now = 0 /\ has_token_url = FALSE /\ TransportIdle /\ FacadeIdle /\ MeaIdle
    /\ EnhancedIdle /\ CompileIdle /\ TermsIdle /\ ThreadsIdle /\ SuiteIdle /\ ValidateIdle
    /\ PrioritizeInit /\ HandlerIdle

OtherThanPrioritize ==
    <<facadeVars, now, transportVars, meaVars, enhancedVars, compileVars, termVars,
      threadVars, suiteVars, validateVars, handlerVars>>

PrioritizeStep7 == PrioritizeExplicit /\ UNCHANGED OtherThanPrioritize
PrioritizeResolve == ResolveStatusReferences /\ UNCHANGED OtherThanPrioritize

NextPrioritize ==
    \/ PrioritizeStep7
    \/ PrioritizeResolve

SpecPrioritize == InitPrioritize /\ [][NextPrioritize]_vars

\* The handler of /execute-request, under the configuration that is shipped
\* (no TOKEN_URL), with the reference data that the caches hold.
InitHandler ==
    /\ now = 0 /\ has_token_url = FALSE /\ TransportIdle /\ FacadeIdle /\ MeaIdle
    /\ EnhancedIdle /\ CompileInit /\ TermsIdle /\ ThreadsIdle /\ SuiteIdle /\ ValidateIdle
    /\ PrioritizeIdle /\ HandlerIdle

HandlerExecuteRequest ==
    ExecuteRequest
    /\ UNCHANGED <<facadeVars, now, meaVars, enhancedVars, termVars, threadVars, suiteVars,
                   validateVars, prioritizeVars>>
NextHandler ==
    \/ HandlerExecuteRequest

SpecHandler == InitHandler /\ [][NextHandler]_vars

(***************************************************************************)
(* Claims about the facade.                                                *)
(***************************************************************************)

\* The LLM strategy failed: backend or network error, unparsable text, or a
\* JSON object without qualDetails.quals.
LlmStrategyFails(resp) ==
    resp.http # "ok" \/ resp.text # "json" \/ resp.payload.qd # "ok"

DefaultCall == f_calls > 0 /\ ~llama_only_mode
StrictCall == f_calls > 0 /\ llama_only_mode

\* C1: in default mode, whenever the LLM strategy fails the facade invokes
\* the rule-based local strategy and returns that strategy's qualification;
\* the static empty fallback is returned only if the rule-based strategy
\* fails too.
C1_LlmFailureAdvancesToLocal ==
    (DefaultCall /\ llm_agent /\ LlmStrategyFails(f_in.resp)) =>
        /\ f_out.kind = "return"
        /\ \E i \in 1..Len(f_invoked) : f_invoked[i] = "local"
        /\ f_out.source = "static" => f_in.run.error
        /\ ~f_in.run.error => f_out = Returned(Payload("ok", f_in.run.quals), "local")

C3_StrictModePropagatesFailure ==
    StrictCall =>
        /\ \A i \in 1..Len(f_invoked) : f_invoked[i] # "local"
        /\ f_out.source # "static"
        /\ LlmStrategyFails(f_in.resp) => f_out.kind = "raise"

\* C4: the strategies are tried in the order LLM, rule-based, static; the
\* first output with qualDetails.quals is returned, no later strategy is
\* invoked after it, and a failing strategy does not keep the later ones
\* from being tried.
StrategyChain ==
    IF llm_agent THEN <<"llm", "local", "static">> ELSE <<"local", "static">>

C4_StrategiesTriedInOrder ==
    DefaultCall =>
        /\ Len(f_invoked) \in 1..Len(StrategyChain)
        /\ f_invoked = SubSeq(StrategyChain, 1, Len(f_invoked))
        /\ f_out.kind = "return"
        /\ f_out.source = f_invoked[Len(f_invoked)]
        /\ f_out.payload.qd = "ok"

(***************************************************************************)
(* Claims about the transport (SpecTransport).                             *)
(***************************************************************************)

\* C8: one invocation of make_api_request or of _execute_api_call sends at
\* most two requests to the target endpoint, sends the second only after the
\* first received 401, and ends with the response body or with an error (an
\* error dict for make_api_request, an exception for _execute_api_call).
C8_SingleRetry ==
    t_calls > 0 =>
        /\ Len(t_out.sent) <= 2
        /\ Len(t_out.sent) = 2 => t_out.sent[1].status = 401
        /\ t_out.op = "make_api_request" => t_out.result \in {BodyResult, ErrorDict}
        /\ t_out.op = "_execute_api_call" => t_out.result \in {BodyResult, RaisedResult}

\* C8 witness: an invocation whose first request received 401 and whose
\* second request was answered with a body.
C8_Witness ==
    /\ t_calls > 0
    /\ t_out.op = "make_api_request"
    /\ Len(t_out.sent) = 2
    /\ t_out.sent[1].status = 401
    /\ t_out.sent[2].status = 200
    /\ t_out.result = BodyResult

(***************************************************************************)
(* Claims about the reference data (SpecReference).                        *)
(***************************************************************************)

\* The response shapes C7 names: an error dict, a list, a dict keyed by user
\* id, a dict of another shape, with entries that miss name, id or email or
\* whose id is not a number.
NamedShape ==
    /\ m_out.shape \in {"error_dict", "list", "user_dict", "object_list"}
    /\ m_out.plain

\* C7: get_user_mapping, get_urgency_mapping and get_service_catalog_mapping
\* raise no exception, whatever the transport delivered: each call returns a
\* mapping.
C7_ReferenceFetchNeverRaises ==
    (m_out.op # "none" /\ NamedShape) => ~m_out.raised

(***************************************************************************)
(* Claims about the field mappings cache (SpecCache).                      *)
(***************************************************************************)

\* C5: a request that finds a cache re-fetches the mappings when the time
\* since the cache was filled has reached the time-to-live of 300 seconds,
\* and reuses the cache only while that time is below it, however long the
\* time is and whether the cache holds live or fallback tables.
C5_MappingsExpire ==
    (e_out.op = "_update_field_mappings" /\ e_out.cached) =>
        (e_out.fetched <=> e_out.elapsed >= cache_duration)

(***************************************************************************)
(* Claims about the compiler of MultiEndpointAgent (SpecCompile).          *)
(***************************************************************************)

\* The prompt of the model that reads text.
PromptNamed(text) == CHOOSE p \in PromptIds : Prompts[p] = text

\* The leaves of the last compilation, and those on one property key.
Quals == q_out.qualification.qualDetails.quals
LeavesOn(key) == SelectSeq(Quals, LAMBDA q : q.key = key)
HoldsId(q, id) ==
    q.value.type = "ListLongValueRest" /\ \E i \in 1..Len(q.value.value) : q.value.value[i] = id

\* build_request_qualification has run, on its own or under execute_query.
RequestCompiled ==
    \/ q_out.op = "build_request_qualification"
    \/ q_out.op = "execute_query" /\ q_out.endpoint = "requests"

\* The default table of the statuses.
DefaultStatuses ==
    << KV(<<"o","p","e","n">>, 9), KV(<<"i","n"," ","p","r","o","g","r","e","s","s">>, 10), KV(<<"p","e","n","d","i","n","g">>, 11), KV(<<"r","e","s","o","l","v","e","d">>, 12),
       KV(<<"c","l","o","s","e","d">>, 13) >>

\* C6: when the fetch of the statuses fails, the resolver of
\* MultiEndpointAgent works with the default table (open 9, in progress 10,
\* pending 11, resolved 12, closed 13) and never with an empty mapping, so
\* that "requests with status closed" still compiles to statusId in [13].
C6_StatusFetchFallsBack ==
    (RequestCompiled /\ q_out.statuses \in FailedStatusResponseIds) =>
        /\ \A i \in 1..Len(DefaultStatuses) :
              /\ DictHas(FetchedStatuses[q_out.statuses], DefaultStatuses[i].k)
              /\ DictGet(FetchedStatuses[q_out.statuses], DefaultStatuses[i].k)
                     = DefaultStatuses[i].v
        /\ q_out.prompt = PromptNamed(<<"r","e","q","u","e","s","t","s"," ","w","i","t","h"," ","s","t","a","t","u","s"," ","c","l","o","s","e","d">>) =>
              \E i \in 1..Len(Quals) :
                  /\ Quals[i].key = "request.statusId"
                  /\ Quals[i].operator = "in"
                  /\ HoldsId(Quals[i], 13)

\* A prompt that names "priority" or "status", and a compilation of it in
\* which no status, priority, urgency, user or text filter resolved.
BareKeyword(p) ==
    StrIn(<<"p","r","i","o","r","i","t","y">>, StrLower(Prompts[p])) \/ StrIn(<<"s","t","a","t","u","s">>, StrLower(Prompts[p]))
NothingResolved(p, c, r) ==
    /\ StatusRefs[p, FetchedStatuses[r]].included = EmptyDict
    /\ StatusRefs[p, FetchedStatuses[r]].excluded = EmptyDict
    /\ PriorityRefs[p].included = EmptyDict
    /\ PriorityRefs[p].excluded = EmptyDict
    /\ UrgencyRefs[p, c] = EmptyDict
    /\ UserRefs[p, c] = EmptyDict
    /\ TextSearches[p] = EmptyDict

\* C11: when the prompt holds the bare keyword "priority" or "status" and no
\* status, priority, urgency, user or text filter resolves, the
\* qualification of build_request_qualification holds the leaf statusId
\* not_in [13].
C11_BareKeywordGetsDefaultLeaf ==
    (/\ q_out.op = "build_request_qualification"
     /\ BareKeyword(q_out.prompt)
     /\ NothingResolved(q_out.prompt, q_cache, q_out.statuses)) =>
        \E i \in 1..Len(Quals) : Quals[i] = ListLongLeaf("request.statusId", "not_in", <<13>>)

\* C12: "requests except closed" compiles to the leaf statusId not_in [13]
\* and to no statusId in leaf that holds 13; "requests with status closed"
\* compiles to statusId in [13] and to no not_in leaf.
C12_NegationFlipsOperator ==
    (RequestCompiled /\ FetchedStatuses[q_out.statuses] = DefaultStatuses) =>
        /\ q_out.prompt = PromptNamed(<<"r","e","q","u","e","s","t","s"," ","e","x","c","e","p","t"," ","c","l","o","s","e","d">>) =>
              /\ \E i \in 1..Len(Quals) :
                    Quals[i] = ListLongLeaf("request.statusId", "not_in", <<13>>)
              /\ \A i \in 1..Len(Quals) :
                    ~(/\ Quals[i].key = "request.statusId"
                      /\ Quals[i].operator = "in"
                      /\ HoldsId(Quals[i], 13))
        /\ q_out.prompt = PromptNamed(<<"r","e","q","u","e","s","t","s"," ","w","i","t","h"," ","s","t","a","t","u","s"," ","c","l","o","s","e","d">>) =>
              /\ \E i \in 1..Len(Quals) :
                    Quals[i] = ListLongLeaf("request.statusId", "in", <<13>>)
              /\ \A i \in 1..Len(Quals) : Quals[i].operator # "not_in"

\* C13: "priority high and low" compiles to exactly one leaf on
\* request.priorityId, with operator in and the IDs 3 and 1, and no
\* qualification holds two leaves on one property key.
C13_MultiValueUnion ==
    RequestCompiled =>
        /\ \A i, j \in 1..Len(Quals) : Quals[i].key = Quals[j].key => i = j
        /\ q_out.prompt = PromptNamed(<<"p","r","i","o","r","i","t","y"," ","h","i","g","h"," ","a","n","d"," ","l","o","w">>) =>
              LeavesOn("request.priorityId")
                  = <<ListLongLeaf("request.priorityId", "in", <<3, 1>>)>>

\* C14: "Get all the request with priority as low" compiles to exactly one
\* leaf, request.priorityId in [1], whatever reference data was fetched.
C14_PriorityAsLow ==
    (RequestCompiled
     /\ q_out.prompt = PromptNamed(<<"G","e","t"," ","a","l","l"," ","t","h","e"," ","r","e","q","u","e","s","t"," ","w","i","t","h"," ","p","r","i","o","r","i","t","y"," ","a","s"," ","l","o","w">>)) =>
        Quals = <<ListLongLeaf("request.priorityId", "in", <<1>>)>>

\* C15: "Get all unassigned requests" and "no technician" compile to exactly
\* one leaf, the unary null check on request.technicianId: type
\* UnaryQualificationRest, the key under operand, operator is_null and no
\* rightOperand.
C15_UnassignedIsNullCheck ==
    (RequestCompiled
     /\ q_out.prompt \in {PromptNamed(<<"G","e","t"," ","a","l","l"," ","u","n","a","s","s","i","g","n","e","d"," ","r","e","q","u","e","s","t","s">>),
                          PromptNamed(<<"n","o"," ","t","e","c","h","n","i","c","i","a","n">>)}) =>
        /\ Len(Quals) = 1
        /\ Quals[1].type = "UnaryQualificationRest"
        /\ Quals[1].operand_field = "operand"
        /\ Quals[1].key = "request.technicianId"
        /\ Quals[1].operator = "is_null"
        /\ ~Quals[1].has_right

\* The concern of a leaf, by its property key: 1 status, 2 priority, 3 text,
\* 4 date, 5 assignment, 6 tag, 7 generic field.
Concern(q) ==
    CASE q.key = "request.statusId" -> 1
      [] q.key = "request.priorityId" -> 2
      [] q.key \in {"request.subject", "request.description", "request.name"} -> 3
      [] q.key \in {"request.createdTime", "created_date"} -> 4
      [] q.key \in {"request.technicianId", "request.requesterName"} -> 5
      [] q.key = "request.tags" -> 6
      [] OTHER -> 7

\* C17: the leaves of an assembled qualification stand in the order status,
\* priority, text, date, assignment, tag, generic field.
C17_LeavesInFixedOrder ==
    RequestCompiled =>
        \A i, j \in 1..Len(Quals) : Concern(Quals[i]) < Concern(Quals[j]) => i < j

\* C19: the qualification that execute_query returns has qualDetails of type
\* FlatQualificationRest with a list of quals, for every endpoint.
C19_TopLevelAlwaysFlat ==
    q_out.op = "execute_query" =>
        q_out.qualification.qualDetails.type = "FlatQualificationRest"

(***************************************************************************)
(* Claims about the compiler of the fallback path (SpecAdvanced).          *)
(***************************************************************************)

\* C9: compiling a prompt again while the reference data is unchanged gives
\* the same qualification as the last compilation of that prompt, whatever
\* time has passed in between.
C9_CompilationIsDeterministic ==
    [][(/\ q_out.op = "build_advanced_qualification"
        /\ q_out'.op = "build_advanced_qualification"
        /\ q_out'.prompt = q_out.prompt
        /\ q_cache' = q_cache
        /\ q_status_mapping' = q_status_mapping
        /\ q_status_mapping_loaded' = q_status_mapping_loaded)
       => q_out'.qualification = q_out.qualification]_vars

\* C10: for the general query "Get all requests", which names no filter, a
\* builder of the request endpoint returns quals = [] exactly.
C10_GeneralQueryHasNoLeaf ==
    (q_out.op = "build_advanced_qualification"
     /\ q_out.prompt = PromptNamed(<<"G","e","t"," ","a","l","l"," ","r","e","q","u","e","s","t","s">>)) => Quals = <<>>

\* The operators of a leaf.
Operators ==
    {"in", "not_in", "contains", "start_with", "end_with", "equal", "not_equal", "before",
     "after", "between", "within_last", "is_null", "is_not_null", "all_members_exist"}

\* C18: every leaf that a compiler emits carries one of the operators in,
\* not_in, contains, start_with, end_with, equal, not_equal, before, after,
\* between, within_last, is_null, is_not_null, all_members_exist.
C18_OperatorsOfClosedSet ==
    q_out.op = "build_advanced_qualification" =>
        \A i \in 1..Len(Quals) : Quals[i].operator \in Operators

\* The mapping that the parser of the last resolution looked the term up in.
ResolvedAgainst == IF r_out.op = "_parse_status_list" THEN priority_mapping ELSE r_mapping

\* C16: a term of one or two characters resolves only by exact match: in
\* _parse_dynamic_status_list, _parse_status_list and
\* _find_multiple_status_clauses every status or priority that the term
\* yields is the entry of the mapping whose key is the term itself.
C16_ShortTermOnlyExact ==
    r_out.op # "none" =>
        \A i \in 1..Len(r_out.result) :
            /\ r_out.result[i].k = r_term
            /\ DictHas(ResolvedAgainst, r_term)

\* The mappings that one fetch builds in full: for the statuses the entries
\* of one response or the fallback table, for the users the entries of the
\* response.
CompleteMappings(fn) ==
    IF fn = "status"
    THEN { BuildStatusMapping(StatusesOf(CallerStatusResponses[r]), EmptyDict) :
             r \in {i \in CallerStatusResponseIds : CallerStatusResponses[i].status = 200} }
         \cup {_get_fallback_status_mapping}
    ELSE { DictUpdate(EmptyDict, UserInserts(LiveSessions)) }

\* C20: with several requests served at once, a caller of get_status_mapping
\* or get_user_mapping that finds the loaded flag set reads a complete
\* mapping: never an empty one, never one that is filled in part.
C20_LoadedCallerReadsComplete ==
    \A t \in Callers :
        (c_callers[t].pc = "done" /\ c_callers[t].found)
            => c_callers[t].seen \in CompleteMappings(c_callers[t].fn)

(***************************************************************************)
(* Claims about the prompts of the forms of the test suite.                *)
(***************************************************************************)

\* C21: for every status X of the mapping and every casing of its name, the
\* prompts "Get me all the request where status is X", "... status is in X"
\* and "... status is in X state" compile to exactly one leaf,
\* request.statusId in [id(X)].
C21_StatusIsExact ==
    s_out.form = "status" =>
        s_out.qualification = Qualification(<<ListLongLeaf("request.statusId", "in", <<s_out.id>>)>>)

\* C22: "... where assignee <includes|has|contains|in|is> V" with V one of
\* unassigned, none and null compiles to exactly one leaf,
\* request.technicianId in [0], whichever of the two compilers builds the
\* qualification.
C22_AssigneeUnassignedOnly ==
    s_out.form = "assignee" =>
        /\ s_out.qualification =
               Qualification(<<ListLongLeaf("request.technicianId", "in", <<0>>)>>)
        /\ s_out.advanced = Qualification(<<ListLongLeaf("request.technicianId", "in", <<0>>)>>)

\* C23: "... where subject <is|contains|has> W" with W one word compiles to
\* exactly one leaf, request.subject contains W in small letters, whatever
\* the status, user and urgency mappings hold.
C23_SubjectOnly ==
    s_out.form = "subject" =>
        s_out.qualification =
            Qualification(<<TextLeaf("request.subject", StrLower(s_out.word))>>)

(***************************************************************************)
(* Claims about the validation at the end of build_request_qualification.  *)
(***************************************************************************)
HasLeaf(quals, key, operator) ==
    \E i \in 1..Len(quals) :
        /\ quals[i].operand_field = "leftOperand"
        /\ quals[i].key = key
        /\ quals[i].operator = operator
FilterKeys == {"request.statusId", "request.priorityId", "request.urgencyId",
               "request.technicianId"}
Contradictory(quals) ==
    \E key \in FilterKeys : HasLeaf(quals, key, "in") /\ HasLeaf(quals, key, "not_in")
IsListLeaf(qual) == qual.has_right /\ qual.value.type = "ListLongValueRest"

\* C24: whenever the leaves hold an in leaf and a not_in leaf for the same
\* key, whichever key it is, _detect_conflicting_filters returns True; and
\* the leaves returned are those collected, leaf by leaf with the same key
\* and operator, whether or not a conflict was reported.
C24_ConflictsFlagged ==
    v_out.op = "build_request_qualification" =>
        /\ Contradictory(v_out.quals) => v_out.has_conflicts
        /\ Len(v_out.returned) = Len(v_out.quals)
        /\ \A i \in 1..Len(v_out.quals) :
              /\ v_out.returned[i].key = v_out.quals[i].key
              /\ v_out.returned[i].operator = v_out.quals[i].operator

\* C25: every list of IDs that is returned is the list that the extractor
\* resolved without its duplicates, in the order of the first occurrences:
\* no other ID is dropped, also when there are more than 100 of them.
C25_OnlyDeduplicates ==
    \A i \in 1..Len(v_out.returned) :
        IsListLeaf(v_out.returned[i]) =>
            v_out.returned[i].value.value = Unique(v_out.quals[i].value.value)

\* C29: no qualification that build_request_qualification returns holds a
\* list leaf with an empty list of IDs.
C29_NoEmptyList ==
    v_out.op = "build_request_qualification" =>
        \A i \in 1..Len(v_out.returned) :
            IsListLeaf(v_out.returned[i]) => v_out.returned[i].value.value # <<>>

(***************************************************************************)
(* Claims about the tie-break of the status resolution.                    *)
(***************************************************************************)
DictEntries(d) == {d[i] : i \in 1..Len(d)}
StatusCap == 5

\* C26: the statuses that _prioritize_explicit_status_mentions returns are
\* among the detected ones; when the prompt mentions a key of the mapping
\* they are exactly the detected statuses that it mentions; and in both
\* cases there are at most 5 of them.
C26_PrioritizedAndCapped ==
    p_out.op = "_prioritize_explicit_status_mentions" =>
        /\ DictEntries(p_out.result) \subseteq DictEntries(p_out.detected)
        /\ p_out.mentions # {} =>
              DictEntries(p_out.result) =
                  {e \in DictEntries(p_out.detected) : e.k \in p_out.mentions}
        /\ Len(p_out.result) <= StatusCap

\* C27: whenever _update_field_mappings has fetched fresh mappings, the
\* local agent holds the fetched tables and the cache and its timestamp are
\* set, with an LLM agent as without one.
C27_LocalAgentUpdated ==
    (e_out.op = "_update_field_mappings" /\ e_out.fetched) =>
        /\ local_field_mappings.locations = _fetch_location_mapping
        /\ local_field_mappings = mappings_cache
        /\ cache_timestamp # NoExpiry

\* C30: when the first request of make_api_request received 401, the request
\* sent after it carries another token than the one that was rejected.
C30_RetryWithFreshToken ==
    (/\ t_out.op = "make_api_request"
     /\ Len(t_out.sent) >= 2
     /\ t_out.sent[1].status = 401) =>
        t_out.sent[2].token # t_out.sent[1].token

\* C28: when the API call of execute_query has succeeded, the handler of
\* /execute-request answers with success = true, HTTP 200 and the data of the
\* endpoint detected, for each of the four endpoints; the exception is a
\* filterable endpoint (requests, service_catalog) for which no
\* qualification was compiled.
C28_SuccessIsReported ==
    (/\ h_out.op = "execute_request"
     /\ ~h_out.raised
     /\ h_out.response = BodyResult
     /\ h_out.endpoint \in {"requests", "service_catalog"} => h_out.generated) =>
        /\ h_out.answer.by = "multi"
        /\ h_out.answer.success
        /\ h_out.answer.status = 200
        /\ h_out.answer.endpoint_used = h_out.endpoint
        /\ h_out.answer.has_data

====
